---- MODULE Spec2Model ----
(***************************************************************************)
(* Model of frameo-miniatures: the discovery walker, the worker pool of    *)
(* app.Run, the per-file transformer and the pruner.                       *)
(*                                                                         *)
(* Strings are sequences of one-character strings, so that filepath.Ext,   *)
(* strings.ToLower, strings.TrimSuffix and strings.ReplaceAll are modelled *)
(* by what they do.  A path is a sequence of such names (its elements).    *)
(***************************************************************************)
EXTENDS Integers, Sequences, FiniteSets, TLC

VARIABLES
    cfg,        \* app.Config handed to Run (Workers is rewritten by Run)
    ignoreEnv,  \* the candidate .frameoignore files of the environment
    inTree,     \* the input tree: indices of InputUniverse that exist
    inFault,    \* per entry of the input tree: the error the walk meets
    badSrc,     \* per input entry: the step of ProcessFile that fails on it
    outFiles,   \* the output tree: full path -> content of the file
    outDirs,    \* the output tree: full paths of the directories
    rmFails,    \* output files on which os.Remove fails
    pcMain,     \* position of Run
    runErr,     \* the error Run returned
    matcher,    \* the *IgnoreMatcher in use
    proc,       \* the *Processor of Run
    files,      \* the channel: descriptors buffered in it
    closed,     \* the channel has been closed
    walkPc,     \* position of the WalkFiles goroutine
    walkPos,    \* next index of InputUniverse WalkDir visits
    walkSkip,   \* directories whose subtree WalkDir does not enter
    walkFor,    \* who started the current walk: "run" or "prune"
    sent,       \* history: descriptors sent on the channel, per starter
    closes,     \* history: number of close(files) executed
    wk,         \* the worker goroutines of Run
    wgCount,    \* the sync.WaitGroup counter
    taken,      \* history: the descriptors received, in the order received
    takers,     \* history: the workers that have received a descriptor
    failed,     \* history: descriptors whose ProcessFile returned an error
    writes,     \* history: the destination paths os.WriteFile has written
    barCount,   \* the progress bar's count
    pruneStep,  \* history: Run reached its prune step
    pruner,     \* the Pruner under call
    prunePc,    \* position of Prune
    expectedFiles, \* Prune's expectedFiles map (its key set)
    pruneLog,   \* history: one record per Prune call that returned
    call,       \* a function of the program called on its own: name, arguments
    ret         \* what the call returned, once it has

vars == <<cfg, ignoreEnv, inTree, inFault, badSrc, outFiles, outDirs, rmFails,
          pcMain, runErr, matcher, proc, files, closed, walkPc, walkPos,
          walkSkip, walkFor, sent, closes, wk, wgCount, taken, takers, failed,
          writes, barCount, pruneStep, pruner, prunePc, expectedFiles, pruneLog,
          call, ret>>

\* the state of Run and Prune
progVars == <<cfg, ignoreEnv, inTree, inFault, badSrc, outFiles, outDirs,
              rmFails, pcMain, runErr, matcher, proc, files, closed, walkPc,
              walkPos, walkSkip, walkFor, sent, closes, wk, wgCount, taken,
              takers, failed, writes, barCount, pruneStep, pruner, prunePc,
              expectedFiles, pruneLog>>

(***************************************************************************)
(* Bounds of the model.                                                    *)
(***************************************************************************)
\* largest worker count handed to Run
MaxWorkers == 2
\* capacity of the descriptor channel.  The program makes it with capacity
\* 1000; the model scales it down so that a tree of a few files fills it.
QueueCap == 2
\* number of Prune calls made after Run has returned
MaxPrunes == 2

\* largest side of an image whose pixels are followed through fixOrientation
MaxPixelSide == 3
\* largest number of tags in a metadata block handed to the capture-time
\* extraction on its own
MaxTags == 2
\* longest file name handed to GetOutputFilename on its own
MaxNameLen == 3
\* largest side of a configured resolution handed to the resize on its own
MaxFrameSide == 4
\* largest side of a decoded image handed to the resize on its own
MaxImageSide == 6

\* runtime.NumCPU() of the machine
NumCPU == 1

(***************************************************************************)
(* Strings and paths.                                                      *)
(***************************************************************************)
Dot == <<".">>

\* strings.ToLower on the letters the model uses
LowerChar(c) ==
    CASE c = "J" -> "j" [] c = "P" -> "p" [] c = "G" -> "g"
      [] c = "E" -> "e" [] c = "H" -> "h" [] c = "I" -> "i" [] c = "C" -> "c"
      [] OTHER -> c

ToLower(s) == [i \in 1..Len(s) |-> LowerChar(s[i])]

RECURSIVE LastDot(_, _)
\* index of the last "." of the last element of a path, 0 when it has
\* none: the scan from the end stops at a separator
LastDot(name, i) ==
    IF i = 0 THEN 0
    ELSE IF name[i] = "/" THEN 0
    ELSE IF name[i] = "." THEN i ELSE LastDot(name, i - 1)

\* filepath.Ext of a path's last element
Ext(name) ==
    LET i == LastDot(name, Len(name))
    IN  IF i = 0 THEN <<>> ELSE SubSeq(name, i, Len(name))

\* strings.TrimSuffix
TrimSuffix(s, suffix) ==
    IF Len(suffix) <= Len(s)
       /\ SubSeq(s, Len(s) - Len(suffix) + 1, Len(s)) = suffix
    THEN SubSeq(s, 1, Len(s) - Len(suffix))
    ELSE s

\* filepath.Clean on a relative path: drops "." elements
Clean(p) ==
    LET q == SelectSeq(p, LAMBDA n : n # Dot)
    IN  IF q = <<>> THEN <<Dot>> ELSE q

\* filepath.Join
Join(a, b) == Clean(a \o b)

\* filepath.Dir
Dir(p) == IF Len(p) <= 1 THEN <<Dot>> ELSE SubSeq(p, 1, Len(p) - 1)

\* filepath.Base
Base(p) == p[Len(p)]

IsPrefix(a, b) == Len(a) <= Len(b) /\ SubSeq(b, 1, Len(a)) = a

\* filepath.Rel(base, target) for a target at or below base
Rel(base, target) ==
    IF target = base THEN <<Dot>>
    ELSE SubSeq(target, Len(base) + 1, Len(target))

(***************************************************************************)
(* fileutil                                                                *)
(***************************************************************************)
InvalidChars == {"\\", "/", ":", ";", "*", "?", "\"", "<", ">", "|"}

NormalizeFilename(filename) ==
    LET ext == Ext(filename)
        nameWithoutExt == TrimSuffix(filename, ext)
    IN  [i \in 1..Len(nameWithoutExt) |->
            IF nameWithoutExt[i] \in InvalidChars THEN "_"
            ELSE nameWithoutExt[i]]

\* GetOutputFilename with only the format "jpg" giving .jpg
GetOutputFilenameJpgOnly(inputFilename, format) ==
    NormalizeFilename(inputFilename) \o
        (IF format = "jpg"
         THEN <<".", "j", "p", "g">>
         ELSE <<".", "w", "e", "b", "p">>)

GetOutputFilename(inputFilename, format) ==
    NormalizeFilename(inputFilename) \o
        (IF format = "jpg" \/ format = "jpeg"
         THEN <<".", "j", "p", "g">>
         ELSE <<".", "w", "e", "b", "p">>)

(***************************************************************************)
(* The environment: names, the input tree, the ignore files, the output    *)
(* tree.                                                                   *)
(***************************************************************************)
InputDir == << <<"i", "n">> >>
OutputDir == << <<"o", "u", "t">> >>

N_a_heic == <<"a", ".", "h", "e", "i", "c">>
N_a_jpg == <<"a", ".", "j", "p", "g">>
N_ab_JPG == <<"a", ":", "b", ".", "J", "P", "G">>
N_d == <<"d">>
N_e == <<"e">>
N_b_jpeg == <<"b", ".", "j", "p", "e", "g">>
N_n_txt == <<"n", ".", "t", "x", "t">>
N_s_jpg == <<"s", ".", "j", "p", "g">>
N_a_webp == <<"a", ".", "w", "e", "b", "p">>
N_o_webp == <<"o", ".", "w", "e", "b", "p">>
N_x == <<"x">>

\* Every entry the input tree may hold, by its elements below the root, in
\* the order filepath.WalkDir visits them (depth first, the entries of one
\* directory sorted by name, byte-wise: "." < ":" < letters).  kind is what
\* fs.DirEntry reports: a symlink is not a directory and is not followed.
InputUniverse == <<
    [names |-> <<>>,                    kind |-> "dir"],
    [names |-> <<N_a_heic>>,            kind |-> "file"],
    [names |-> <<N_a_jpg>>,             kind |-> "file"],
    [names |-> <<N_ab_JPG>>,            kind |-> "file"],
    [names |-> <<N_d>>,                 kind |-> "dir"],
    [names |-> <<N_d, N_a_jpg>>,        kind |-> "file"],
    [names |-> <<N_d, N_e>>,            kind |-> "dir"],
    [names |-> <<N_d, N_e, N_b_jpeg>>,  kind |-> "file"],
    [names |-> <<N_d, N_n_txt>>,        kind |-> "file"],
    [names |-> <<N_s_jpg>>,             kind |-> "symlink"] >>

Entries == 1..Len(InputUniverse)

\* the path WalkDir hands to its callback: filepath.Join(root, names...)
EntryPath(n) == InputDir \o InputUniverse[n].names

IsDirEntry(n) == InputUniverse[n].kind = "dir"

\* the entry of a path
EntryOf(path) == CHOOSE n \in Entries : EntryPath(n) = path

\* the input trees of the model
Trees == {
    {1, 2, 3, 5, 6},
    {1, 3, 4, 5, 7, 8, 9, 10},
    {1} }

NoFault == [n \in Entries |-> "none"]

AllOk == [n \in Entries |-> "ok"]

NoFile == [exists |-> FALSE, readable |-> FALSE, matched |-> {}]

RuleFile(matched) == [exists |-> TRUE, readable |-> TRUE, matched |-> matched]

NoIgnoreFiles ==
    [explicit |-> NoFile, home |-> NoFile, input |-> NoFile, cwd |-> NoFile]

\* The candidate ignore files.  A rule file is given by the set of path
\* strings its compiled rules match (the gitignore library decides that);
\* both the root-relative and the full form of a path are such strings.
IgnoreEnvs == {
    NoIgnoreFiles,
    \* the directory d is matched by its root-relative form, nothing below
    \* it is (a negation rule un-ignores the descendants)
    [NoIgnoreFiles EXCEPT !.input = RuleFile({<<N_d>>})],
    \* d/e is matched by its full form only, a.jpg by its relative form
    [NoIgnoreFiles EXCEPT
        !.home = RuleFile({InputDir \o <<N_d, N_e>>, <<N_a_jpg>>}),
        !.input = RuleFile({<<N_s_jpg>>})],
    \* an explicit file wins over the others
    [NoIgnoreFiles EXCEPT
        !.explicit = RuleFile({InputDir \o <<N_s_jpg>>, <<N_d, N_a_jpg>>}),
        !.cwd = RuleFile({<<N_a_jpg>>})] }

\* An output file: the source it was written from, its bytes and its
\* modification time.  OldContent is a file that is there before the run.
OldContent == [src |-> <<>>, data |-> "old", mtime |-> "old"]

\* what os.WriteFile and os.Chtimes leave at the destination
NewContent(srcPath, data, mtime) ==
    [src |-> srcPath, data |-> data, mtime |-> mtime]

(***************************************************************************)
(* discovery: the ignore matcher                                           *)
(***************************************************************************)
EmptyMatcher == [nil |-> TRUE, matched |-> {}]

\* NewIgnoreMatcher looking for the candidates in the opposite order
NewIgnoreMatcherCwdFirst(explicitGiven, env) ==
    LET ignorePath ==
            IF env.cwd.exists THEN "cwd"
            ELSE IF env.input.exists THEN "input"
            ELSE IF env.home.exists THEN "home"
            ELSE IF explicitGiven /\ env.explicit.exists THEN "explicit"
            ELSE ""
    IN  IF ignorePath = "" THEN [err |-> FALSE, m |-> EmptyMatcher]
        ELSE IF ~env[ignorePath].readable
             THEN [err |-> TRUE, m |-> EmptyMatcher]
             ELSE [err |-> FALSE,
                   m |-> [nil |-> FALSE, matched |-> env[ignorePath].matched]]

\* NewIgnoreMatcher: the first candidate that exists, none later
NewIgnoreMatcher(explicitGiven, env) ==
    LET ignorePath ==
            IF explicitGiven /\ env.explicit.exists THEN "explicit"
            ELSE IF env.home.exists THEN "home"
            ELSE IF env.input.exists THEN "input"
            ELSE IF env.cwd.exists THEN "cwd"
            ELSE ""
    IN  IF ignorePath = "" THEN [err |-> FALSE, m |-> EmptyMatcher]
        ELSE IF ~env[ignorePath].readable
             THEN [err |-> TRUE, m |-> EmptyMatcher]
             ELSE [err |-> FALSE,
                   m |-> [nil |-> FALSE, matched |-> env[ignorePath].matched]]

\* IgnoreMatcher.Matches; isDir is not used by the code
Matches(m, path, isDir) ==
    IF m.nil THEN FALSE ELSE path \in m.matched

(***************************************************************************)
(* discovery: WalkFiles                                                    *)
(***************************************************************************)
ValidExtensions ==
    { <<".", "j", "p", "g">>, <<".", "j", "p", "e", "g">>,
      <<".", "h", "e", "i", "c">> }

\* isValidExtension comparing the extension as written
isValidExtensionCaseSensitive(path) == Ext(Base(path)) \in ValidExtensions

isValidExtension(path) == ToLower(Ext(Base(path))) \in ValidExtensions

File(path, relPath) == [Path |-> path, RelativePath |-> relPath]

\* WalkFn leaving an ignored directory to be entered
WalkFnNoSkipDir(n, err, m) ==
    LET path == EntryPath(n)
        relPath == Rel(InputDir, path)
    IN  IF err # "none" THEN [ret |-> "nil", send |-> FALSE]
        ELSE IF inFault[n] = "rel" THEN [ret |-> "nil", send |-> FALSE]
        ELSE IF IsDirEntry(n) THEN [ret |-> "nil", send |-> FALSE]
        ELSE IF ~isValidExtension(path) THEN [ret |-> "nil", send |-> FALSE]
        ELSE IF Matches(m, relPath, FALSE) \/ Matches(m, path, FALSE)
             THEN [ret |-> "nil", send |-> FALSE]
        ELSE [ret |-> "nil", send |-> TRUE]

\* WalkFn handing an error back to WalkDir
WalkFnAbort(n, err, m) ==
    LET path == EntryPath(n)
        relPath == Rel(InputDir, path)
    IN  IF err # "none" THEN [ret |-> "err", send |-> FALSE]
        ELSE IF inFault[n] = "rel" THEN [ret |-> "err", send |-> FALSE]
        ELSE IF IsDirEntry(n)
             THEN IF Matches(m, relPath, TRUE) \/ Matches(m, path, TRUE)
                  THEN [ret |-> "SkipDir", send |-> FALSE]
                  ELSE [ret |-> "nil", send |-> FALSE]
        ELSE IF ~isValidExtension(path) THEN [ret |-> "nil", send |-> FALSE]
        ELSE IF Matches(m, relPath, FALSE) \/ Matches(m, path, FALSE)
             THEN [ret |-> "nil", send |-> FALSE]
        ELSE [ret |-> "nil", send |-> TRUE]

\* The callback WalkFiles hands to filepath.WalkDir, for entry n with the
\* error err WalkDir reports ("none" for nil): what it returns and whether
\* it sends a descriptor.
WalkFn(n, err, m) ==
    LET path == EntryPath(n)
        relPath == Rel(InputDir, path)
    IN  IF err # "none" THEN [ret |-> "nil", send |-> FALSE]
        ELSE IF inFault[n] = "rel" THEN [ret |-> "nil", send |-> FALSE]
        ELSE IF IsDirEntry(n)
             THEN IF Matches(m, relPath, TRUE) \/ Matches(m, path, TRUE)
                  THEN [ret |-> "SkipDir", send |-> FALSE]
                  ELSE [ret |-> "nil", send |-> FALSE]
        ELSE IF ~isValidExtension(path) THEN [ret |-> "nil", send |-> FALSE]
        ELSE IF Matches(m, relPath, FALSE) \/ Matches(m, path, FALSE)
             THEN [ret |-> "nil", send |-> FALSE]
        ELSE [ret |-> "nil", send |-> TRUE]

UnderSkipped(n, skip) ==
    \E s \in skip : IsPrefix(InputUniverse[s].names, InputUniverse[n].names)

RECURSIVE NextVisit(_, _)
\* the next entry WalkDir visits from position pos on: it exists and lies
\* in no subtree WalkDir has left out; Len(InputUniverse) + 1 when none
NextVisit(pos, skip) ==
    IF pos > Len(InputUniverse) THEN pos
    ELSE IF pos \in inTree /\ ~UnderSkipped(pos, skip) THEN pos
    ELSE NextVisit(pos + 1, skip)

\* WalkFilesStep with the descriptor put before those waiting in the channel
WalkFilesStepJumpsQueue ==
    /\ walkPc = "walking"
    /\ LET n == NextVisit(walkPos, walkSkip)
           first == WalkFn(n, IF inFault[n] = "lstat" THEN "lstat" ELSE "none",
                           matcher)
           readFails == /\ IsDirEntry(n)
                        /\ inFault[n] = "readdir"
                        /\ first.ret = "nil"
           second == IF readFails THEN WalkFn(n, "readdir", matcher)
                     ELSE first
           desc == File(EntryPath(n), Rel(InputDir, EntryPath(n)))
       IN  /\ n <= Len(InputUniverse)
           /\ first.send => Len(files) < QueueCap
           /\ files' = IF first.send THEN <<desc>> \o files ELSE files
           /\ sent' = IF first.send
                      THEN [sent EXCEPT ![walkFor] = Append(@, desc)]
                      ELSE sent
           /\ walkSkip' = IF \/ inFault[n] = "lstat"
                             \/ first.ret = "SkipDir"
                             \/ readFails
                          THEN walkSkip \cup {n}
                          ELSE walkSkip
           /\ walkPos' = IF first.ret = "err" \/ second.ret = "err"
                         THEN Len(InputUniverse) + 1
                         ELSE n + 1
    /\ UNCHANGED <<cfg, ignoreEnv, inTree, inFault, badSrc, outFiles, outDirs,
                   rmFails, pcMain, runErr, matcher, proc, closed, walkPc,
                   walkFor, closes, wk, wgCount, taken, takers, failed, writes,
                   barCount, pruneStep, pruner, prunePc, expectedFiles,
                   pruneLog,
                   call, ret>>

\* one entry of filepath.WalkDir: the callback on the entry, and for a
\* directory the callback did not skip, the reading of the directory (a
\* failure is reported to the callback a second time; its entries are not
\* visited).  An error returned by the callback, other than SkipDir, ends
\* the walk.  A send blocks while the channel is full.
WalkFilesStep ==
    /\ walkPc = "walking"
    /\ LET n == NextVisit(walkPos, walkSkip)
           first == WalkFn(n, IF inFault[n] = "lstat" THEN "lstat" ELSE "none",
                           matcher)
           readFails == /\ IsDirEntry(n)
                        /\ inFault[n] = "readdir"
                        /\ first.ret = "nil"
           second == IF readFails THEN WalkFn(n, "readdir", matcher)
                     ELSE first
           desc == File(EntryPath(n), Rel(InputDir, EntryPath(n)))
       IN  /\ n <= Len(InputUniverse)
           /\ first.send => Len(files) < QueueCap
           /\ files' = IF first.send THEN Append(files, desc) ELSE files
           /\ sent' = IF first.send
                      THEN [sent EXCEPT ![walkFor] = Append(@, desc)]
                      ELSE sent
           /\ walkSkip' = IF \/ inFault[n] = "lstat"
                             \/ first.ret = "SkipDir"
                             \/ readFails
                          THEN walkSkip \cup {n}
                          ELSE walkSkip
           /\ walkPos' = IF first.ret = "err" \/ second.ret = "err"
                         THEN Len(InputUniverse) + 1
                         ELSE n + 1
    /\ UNCHANGED <<cfg, ignoreEnv, inTree, inFault, badSrc, outFiles, outDirs,
                   rmFails, pcMain, runErr, matcher, proc, closed, walkPc,
                   walkFor, closes, wk, wgCount, taken, takers, failed, writes,
                   barCount, pruneStep, pruner, prunePc, expectedFiles,
                   pruneLog,
                   call, ret>>

\* WalkFilesClose without the close
WalkFilesNoClose ==
    /\ walkPc = "walking"
    /\ NextVisit(walkPos, walkSkip) > Len(InputUniverse)
    /\ walkPc' = "done"
    /\ UNCHANGED <<cfg, ignoreEnv, inTree, inFault, badSrc, outFiles, outDirs,
                   rmFails, pcMain, runErr, matcher, proc, files, closed,
                   closes, walkPos, walkSkip, walkFor, sent, wk, wgCount,
                   taken, takers, failed, writes, barCount, pruneStep, pruner,
                   prunePc, expectedFiles, pruneLog,
                   call, ret>>

\* WalkDir has returned: the deferred close(files)
WalkFilesClose ==
    /\ walkPc = "walking"
    /\ NextVisit(walkPos, walkSkip) > Len(InputUniverse)
    /\ closed' = TRUE
    /\ closes' = closes + 1
    /\ walkPc' = "done"
    /\ UNCHANGED <<cfg, ignoreEnv, inTree, inFault, badSrc, outFiles, outDirs,
                   rmFails, pcMain, runErr, matcher, proc, files, walkPos,
                   walkSkip, walkFor, sent, wk, wgCount, taken, takers, failed,
                   writes, barCount, pruneStep, pruner, prunePc,
                   expectedFiles, pruneLog,
                   call, ret>>

(***************************************************************************)
(* processor: ProcessFile                                                  *)
(***************************************************************************)
Prefixes(p) == {SubSeq(p, 1, k) : k \in 1..Len(p)}

\* Exists with os.Stat finding nothing
ExistsNever(path, fs, dirs) == FALSE

\* os.Stat(path) succeeds
Exists(path, fs, dirs) == path \in DOMAIN fs \/ path \in dirs

\* normalizeFilename giving the WebP name whatever the format
normalizeFilenameWebp(p, name) == GetOutputFilename(name, "webp")

\* Processor.normalizeFilename
normalizeFilename(p, name) == GetOutputFilename(name, p.Format)

\* DestPath in the directory of the source
DestPathBesideSource(p, srcPath, destDir) ==
    Join(Dir(srcPath), <<normalizeFilename(p, Base(srcPath))>>)

\* the destination path ProcessFile computes
DestPath(p, srcPath, destDir) ==
    Join(destDir, <<normalizeFilename(p, Base(srcPath))>>)

\* one entry of exif.GetFlatExifData: the tag's name and its first value as
\* text
Tag(name, value) == [TagName |-> name, FormattedFirst |-> value]

\* The metadata of a source, by what ProcessFile meets on it: whether
\* exif.SearchAndExtractExifWithReader finds a block, whether
\* exif.GetFlatExifData parses it, and its tags in the order of the block.
\* The values of the date tags are "t1", "t2" (dates), "zero" (the text
\* 0001:01:01 00:00:00) and "bad" (no date).
SrcExif(bad) ==
    CASE bad \in {"noexif", "nostat"} ->
           [found |-> FALSE, parses |-> FALSE, entries |-> <<>>]
      [] bad = "rebuild" ->
           [found |-> TRUE, parses |-> FALSE, entries |-> <<>>]
      [] bad = "nodate" ->
           [found |-> TRUE, parses |-> TRUE,
            entries |-> <<Tag("Make", "m"), Tag("DateTimeOriginal", "bad")>>]
      [] bad = "zerotime" ->
           [found |-> TRUE, parses |-> TRUE,
            entries |-> <<Tag("DateTimeOriginal", "zero")>>]
      [] OTHER ->
           [found |-> TRUE, parses |-> TRUE,
            entries |-> <<Tag("Make", "m"), Tag("DateTimeOriginal", "t1")>>]

\* exif.SearchAndExtractExifWithReader finds a metadata block in the source
HasExif(bad) == SrcExif(bad).found

\* time.Parse("2006:01:02 15:04:05", value); the text 0001:01:01 00:00:00
\* parses to the zero time.Time
TimeParse(value) ==
    IF value = "bad" THEN [err |-> TRUE, t |-> "zero"]
    ELSE [err |-> FALSE, t |-> value]

RECURSIVE captureTimeOf(_)
\* the loop of step 3 over the entries: the first entry named
\* DateTimeOriginal or CreateDate whose value parses gives captureTime and
\* ends the loop; "zero" is the zero time.Time captureTime starts with
captureTimeOf(entries) ==
    IF entries = <<>> THEN "zero"
    ELSE LET tag == Head(entries)
         IN  IF /\ tag.TagName \in {"DateTimeOriginal", "CreateDate"}
                /\ ~TimeParse(tag.FormattedFirst).err
             THEN TimeParse(tag.FormattedFirst).t
             ELSE captureTimeOf(Tail(entries))

\* step 3 of ProcessFile: captureTime
captureTime(exif) ==
    IF exif.found /\ exif.parses THEN captureTimeOf(exif.entries)
    ELSE "zero"

\* DestModTime with the source's modification time in every case
DestModTimeOfSource(bad) == "source"

\* Step 9 of ProcessFile: the modification time of the destination, which
\* os.WriteFile has left at "now".  os.Chtimes sets it to captureTime
\* unless that is the zero time, and then to the ModTime os.Stat reports
\* for the source; when os.Chtimes fails ("chtimes") or os.Stat fails
\* ("nostat") the time stays as it is and ProcessFile goes on.
DestModTime(bad) ==
    LET t == captureTime(SrcExif(bad))
    IN  IF t # "zero"
        THEN IF bad = "chtimes" THEN "now" ELSE t
        ELSE IF bad = "nostat" THEN "now" ELSE "source"

\* Processor.embedExifInJPEG: the bytes it returns, nil on every error
embedExifInJPEG(jpegData, bad) ==
    IF bad = "embed" THEN [data |-> "empty", err |-> TRUE]
    ELSE [data |-> "encoded+exif", err |-> FALSE]

\* webp.SetMetadata: as embedExifInJPEG, the new bytes or nil with an error
SetMetadata(webpData, bad) ==
    IF bad = "embed" THEN [data |-> "empty", err |-> TRUE]
    ELSE [data |-> "encoded+exif", err |-> FALSE]

\* step 7 of ProcessFile: the bytes handed to os.WriteFile.  The result of
\* the embedding call is assigned to encodedData whether or not it failed.
EncodedData(p, bad) ==
    IF ~HasExif(bad) THEN "encoded"
    ELSE IF bad = "rebuild" THEN "encoded"
    ELSE IF p.Format = "webp" THEN SetMetadata("encoded", bad).data
    ELSE IF p.Format \in {"jpg", "jpeg"}
         THEN embedExifInJPEG("encoded", bad).data
    ELSE "encoded"

\* Processor.ProcessFile(srcPath, destDir) on the output tree (fs, dirs):
\* the error it returns ("nil" for none), the output tree it leaves and
\* whether it wrote the destination file.  os.WriteFile truncates the
\* destination and then writes; a write that fails leaves what was written
\* so far.
ProcessFile(p, srcPath, destDir, fs, dirs) ==
    LET bad == badSrc[EntryOf(srcPath)]
        destPath == DestPath(p, srcPath, destDir)
        same == [fs |-> fs, dirs |-> dirs, wrote |-> FALSE]
        madeDirs == dirs \cup Prefixes(destDir)
        put(c) == [q \in DOMAIN fs \cup {destPath} |->
                     IF q = destPath THEN c ELSE fs[q]]
    IN  IF bad = "open"
        THEN [err |-> "failed to open file"] @@ same
        ELSE IF bad = "decode"
        THEN [err |-> "failed to decode image"] @@ same
        ELSE IF p.SkipExisting /\ Exists(destPath, fs, dirs)
        THEN [err |-> "nil"] @@ same
        ELSE IF \E q \in Prefixes(destDir) : q \in DOMAIN fs
        THEN [err |-> "failed to create dest dir"] @@ same
        ELSE IF bad = "encode"
        THEN [err |-> "failed to encode", fs |-> fs, dirs |-> madeDirs,
              wrote |-> FALSE]
        ELSE IF destPath \in madeDirs
        THEN [err |-> "failed to write output file", fs |-> fs,
              dirs |-> madeDirs, wrote |-> FALSE]
        ELSE IF bad = "write"
        THEN [err |-> "failed to write output file",
              fs |-> put(NewContent(srcPath, "partial", "now")),
              dirs |-> madeDirs, wrote |-> FALSE]
        ELSE [err |-> "nil",
              fs |-> put(NewContent(srcPath, EncodedData(p, bad),
                                    DestModTime(bad))),
              dirs |-> madeDirs, wrote |-> TRUE]

(***************************************************************************)
(* app: Run                                                                *)
(***************************************************************************)
Digits == {"0", "1", "2", "3", "4", "5", "6", "7", "8", "9"}

RECURSIVE Split(_, _)
\* strings.Split(s, sep) for a one-character separator
Split(s, sep) ==
    IF \A i \in 1..Len(s) : s[i] # sep THEN <<s>>
    ELSE LET k == CHOOSE i \in 1..Len(s) :
                     s[i] = sep /\ \A j \in 1..(i - 1) : s[j] # sep
         IN  <<SubSeq(s, 1, k - 1)>> \o Split(SubSeq(s, k + 1, Len(s)), sep)

\* strconv.Atoi succeeds: an optional sign and at least one digit
IsInt(s) ==
    LET body == IF Len(s) > 0 /\ s[1] \in {"+", "-"} THEN Tail(s) ELSE s
    IN  Len(body) > 0 /\ \A i \in 1..Len(body) : body[i] \in Digits

DigitVal(c) == CHOOSE v \in 0..9 : ToString(v) = c

RECURSIVE DigitsVal(_)
DigitsVal(s) ==
    IF s = <<>> THEN 0
    ELSE 10 * DigitsVal(SubSeq(s, 1, Len(s) - 1)) + DigitVal(s[Len(s)])

\* strconv.Atoi's value
Atoi(s) ==
    IF s[1] = "-" THEN 0 - DigitsVal(Tail(s))
    ELSE IF s[1] = "+" THEN DigitsVal(Tail(s))
    ELSE DigitsVal(s)

\* parseResolution taking every string
parseResolutionAny(res) == [w |-> 0, h |-> 0, err |-> "nil"]

parseResolution(res) ==
    LET parts == Split(res, "x")
    IN  IF Len(parts) # 2
        THEN [w |-> 0, h |-> 0, err |-> "invalid resolution format"]
        ELSE IF ~IsInt(parts[1])
        THEN [w |-> 0, h |-> 0, err |-> "invalid width"]
        ELSE IF ~IsInt(parts[2])
        THEN [w |-> 0, h |-> 0, err |-> "invalid height"]
        ELSE [w |-> Atoi(parts[1]), h |-> Atoi(parts[2]), err |-> "nil"]

\* the resolution strings handed to Run
Resolutions == { <<"8", "x", "6">>, <<"8", "6">>, <<"8", "x", "a">>,
                 <<"x", "6">>, <<"8", "x", "6", "x", "4">> }

Workers == 1..MaxWorkers

NoDesc == File(<<>>, <<>>)

NoProc == [Width |-> 0, Height |-> 0, Quality |-> 0, Format |-> "",
           SkipExisting |-> FALSE]

\* NewProcessor
NewProcessor(width, height, quality, format, skipExisting) ==
    [Width |-> width, Height |-> height, Quality |-> quality,
     Format |-> format, SkipExisting |-> skipExisting]

\* Run, resolution string rejected: returns the error, nothing was started
RunParseError ==
    /\ pcMain = "start"
    /\ parseResolution(cfg.Resolution).err # "nil"
    /\ runErr' = parseResolution(cfg.Resolution).err
    /\ pcMain' = "returned"
    /\ UNCHANGED <<cfg, ignoreEnv, inTree, inFault, badSrc, outFiles, outDirs,
                   rmFails, matcher, proc, files, closed, walkPc, walkPos,
                   walkSkip, walkFor, sent, closes, wk, wgCount, taken, takers,
                   failed, writes, barCount, pruneStep, pruner, prunePc,
                   expectedFiles, pruneLog,
                   call, ret>>

\* Run up to wg.Wait(): worker default, processor, matcher, channel, the
\* producer goroutine and the cfg.Workers consumer goroutines
RunStart ==
    /\ pcMain = "start"
    /\ LET r == parseResolution(cfg.Resolution)
           n == IF cfg.Workers <= 0 THEN NumCPU ELSE cfg.Workers
           im == NewIgnoreMatcher(cfg.IgnoreFile, ignoreEnv)
       IN  /\ r.err = "nil"
           /\ cfg' = [cfg EXCEPT !.Workers = n]
           /\ proc' = NewProcessor(r.w, r.h, cfg.Quality, cfg.Format,
                                   cfg.SkipExisting)
           /\ matcher' = IF im.err THEN EmptyMatcher ELSE im.m
           /\ wk' = [w \in Workers |->
                       IF w <= n THEN [pc |-> "recv", file |-> NoDesc]
                       ELSE wk[w]]
           /\ wgCount' = n
    /\ files' = <<>>
    /\ closed' = FALSE
    /\ walkPc' = "walking"
    /\ walkPos' = 1
    /\ walkSkip' = {}
    /\ walkFor' = "run"
    /\ pcMain' = "wait"
    /\ UNCHANGED <<ignoreEnv, inTree, inFault, badSrc, outFiles, outDirs,
                   rmFails, runErr, sent, closes, taken, takers, failed, writes,
                   barCount, pruneStep, pruner, prunePc, expectedFiles,
                   pruneLog,
                   call, ret>>

\* WorkerRecv with the first receive leaving the descriptor in the channel
WorkerRecvPeek(w) ==
    /\ wk[w].pc = "recv"
    /\ files # <<>>
    /\ wk' = [wk EXCEPT ![w] = [pc |-> "proc", file |-> Head(files)]]
    /\ files' = IF Len(taken) = 0 THEN files ELSE Tail(files)
    /\ taken' = Append(taken, Head(files))
    /\ takers' = takers \cup {w}
    /\ UNCHANGED <<cfg, ignoreEnv, inTree, inFault, badSrc, outFiles, outDirs,
                   rmFails, pcMain, runErr, matcher, proc, closed, walkPc,
                   walkPos, walkSkip, walkFor, sent, closes, wgCount, failed,
                   writes, barCount, pruneStep, pruner, prunePc,
                   expectedFiles, pruneLog,
                   call, ret>>

\* a worker's "for file := range files" receives a descriptor
WorkerRecv(w) ==
    /\ wk[w].pc = "recv"
    /\ files # <<>>
    /\ wk' = [wk EXCEPT ![w] = [pc |-> "proc", file |-> Head(files)]]
    /\ files' = Tail(files)
    /\ taken' = Append(taken, Head(files))
    /\ takers' = takers \cup {w}
    /\ UNCHANGED <<cfg, ignoreEnv, inTree, inFault, badSrc, outFiles, outDirs,
                   rmFails, pcMain, runErr, matcher, proc, closed, walkPc,
                   walkPos, walkSkip, walkFor, sent, closes, wgCount, failed,
                   writes, barCount, pruneStep, pruner, prunePc,
                   expectedFiles, pruneLog,
                   call, ret>>

\* WorkerProcess with the worker returning when ProcessFile fails
WorkerProcessReturnOnError(w) ==
    /\ wk[w].pc = "proc"
    /\ LET file == wk[w].file
           destDir == Join(OutputDir, Dir(file.RelativePath))
           r == ProcessFile(proc, file.Path, destDir, outFiles, outDirs)
           stop == ~cfg.DryRun /\ r.err # "nil"
       IN  /\ IF cfg.DryRun
              THEN UNCHANGED <<outFiles, outDirs, failed, writes>>
              ELSE /\ outFiles' = r.fs
                   /\ outDirs' = r.dirs
                   /\ failed' = IF r.err # "nil" THEN failed \cup {file}
                                ELSE failed
                   /\ writes' = IF r.wrote
                                THEN writes
                                  \cup {DestPath(proc, file.Path, destDir)}
                                ELSE writes
           /\ barCount' = IF stop THEN barCount ELSE barCount + 1
           /\ wk' = [wk EXCEPT ![w] = [pc |-> IF stop THEN "done" ELSE "recv",
                                       file |-> NoDesc]]
           /\ wgCount' = IF stop THEN wgCount - 1 ELSE wgCount
    /\ UNCHANGED <<cfg, ignoreEnv, inTree, inFault, badSrc, rmFails, pcMain,
                   runErr, matcher, proc, files, closed, walkPc, walkPos,
                   walkSkip, walkFor, sent, closes, taken, takers,
                   pruneStep, pruner, prunePc, expectedFiles, pruneLog,
                   call, ret>>

\* the loop body: ProcessFile unless dry-run, the error only logged, then
\* bar.Add(1) and back to the receive
WorkerProcess(w) ==
    /\ wk[w].pc = "proc"
    /\ LET file == wk[w].file
           destDir == Join(OutputDir, Dir(file.RelativePath))
           r == ProcessFile(proc, file.Path, destDir, outFiles, outDirs)
       IN  IF cfg.DryRun
           THEN UNCHANGED <<outFiles, outDirs, failed, writes>>
           ELSE /\ outFiles' = r.fs
                /\ outDirs' = r.dirs
                /\ failed' = IF r.err # "nil" THEN failed \cup {file}
                             ELSE failed
                /\ writes' = IF r.wrote
                             THEN writes
                                    \cup {DestPath(proc, file.Path, destDir)}
                             ELSE writes
    /\ barCount' = barCount + 1
    /\ wk' = [wk EXCEPT ![w] = [pc |-> "recv", file |-> NoDesc]]
    /\ UNCHANGED <<cfg, ignoreEnv, inTree, inFault, badSrc, rmFails, pcMain,
                   runErr, matcher, proc, files, closed, walkPc, walkPos,
                   walkSkip, walkFor, sent, closes, wgCount, taken, takers,
                   pruneStep, pruner, prunePc, expectedFiles, pruneLog,
                   call, ret>>

\* the range loop ends on the closed and drained channel: wg.Done()
WorkerExit(w) ==
    /\ wk[w].pc = "recv"
    /\ files = <<>>
    /\ closed
    /\ wk' = [wk EXCEPT ![w].pc = "done"]
    /\ wgCount' = wgCount - 1
    /\ UNCHANGED <<cfg, ignoreEnv, inTree, inFault, badSrc, outFiles, outDirs,
                   rmFails, pcMain, runErr, matcher, proc, files, closed,
                   walkPc, walkPos, walkSkip, walkFor, sent, closes, taken, takers,
                   failed, writes, barCount, pruneStep, pruner, prunePc,
                   expectedFiles, pruneLog,
                   call, ret>>

\* RunWait waiting for the producer instead of the workers
RunWaitForClose ==
    /\ pcMain = "wait"
    /\ closed
    /\ pcMain' = "prune"
    /\ UNCHANGED <<cfg, ignoreEnv, inTree, inFault, badSrc, outFiles, outDirs,
                   rmFails, runErr, matcher, proc, files, closed, walkPc,
                   walkPos, walkSkip, walkFor, sent, closes, wk, wgCount,
                   taken, takers, failed, writes, barCount, pruneStep, pruner,
                   prunePc, expectedFiles, pruneLog,
                   call, ret>>

\* wg.Wait() returns when the counter is zero; bar.Finish()
RunWait ==
    /\ pcMain = "wait"
    /\ wgCount = 0
    /\ pcMain' = "prune"
    /\ UNCHANGED <<cfg, ignoreEnv, inTree, inFault, badSrc, outFiles, outDirs,
                   rmFails, runErr, matcher, proc, files, closed, walkPc,
                   walkPos, walkSkip, walkFor, sent, closes, wk, wgCount,
                   taken, takers, failed, writes, barCount, pruneStep, pruner,
                   prunePc, expectedFiles, pruneLog,
                   call, ret>>

\* the prune step of Run (it only logs), then return nil
RunPrune ==
    /\ pcMain = "prune"
    /\ pruneStep' = cfg.Prune
    /\ runErr' = "nil"
    /\ pcMain' = "returned"
    /\ UNCHANGED <<cfg, ignoreEnv, inTree, inFault, badSrc, outFiles, outDirs,
                   rmFails, matcher, proc, files, closed, walkPc, walkPos,
                   walkSkip, walkFor, sent, closes, wk, wgCount, taken, takers,
                   failed, writes, barCount, pruner, prunePc, expectedFiles,
                   pruneLog,
                   call, ret>>

(***************************************************************************)
(* pruner: Prune                                                           *)
(***************************************************************************)
NoPruner == [InputDir |-> <<>>, OutputDir |-> <<>>, Format |-> "",
             Matcher |-> EmptyMatcher, DryRun |-> FALSE]

\* NewPruner
NewPruner(inputDir, outputDir, format, m, dryRun) ==
    [InputDir |-> inputDir, OutputDir |-> outputDir, Format |-> format,
     Matcher |-> m, DryRun |-> dryRun]

\* getOutputPath keeping the input's name
getOutputPathKeepName(p, inputRelPath) ==
    Join(Dir(inputRelPath), <<Base(inputRelPath)>>)

\* Pruner.getOutputPath
getOutputPath(p, inputRelPath) ==
    LET dir == Dir(inputRelPath)
        filename == Base(inputRelPath)
        outputFilename == GetOutputFilename(filename, p.Format)
    IN  Join(dir, <<outputFilename>>)

\* os.Remove(path) of a file succeeds
RemoveFile(path) == path \notin rmFails

\* PrunedFiles with no file removed
PrunedFilesNone(p, expected) == {}

\* PrunedFiles with the removal not governed by the dry-run flag
PrunedFilesInDryRun(p, expected) ==
    {f \in DOMAIN outFiles :
        /\ ~expected[Rel(p.OutputDir, f)]
        /\ RemoveFile(f)}

\* The files the walk of the output root removes: every file whose path
\* relative to the output root is not expected and whose os.Remove
\* succeeds.  The walk treats each file on its own, so its order is not
\* modelled.
PrunedFiles(p, expected) ==
    {f \in DOMAIN outFiles :
        /\ ~expected[Rel(p.OutputDir, f)]
        /\ ~p.DryRun
        /\ RemoveFile(f)}

\* RemovedCount with a failed removal counted as well
RemovedCountAttempts(p, expected) ==
    Cardinality({f \in DOMAIN outFiles : ~expected[Rel(p.OutputDir, f)]})

\* removedCount: a would-be removal counts in dry-run, a failed one never
RemovedCount(p, expected) ==
    Cardinality({f \in DOMAIN outFiles :
        /\ ~expected[Rel(p.OutputDir, f)]
        /\ (p.DryRun \/ RemoveFile(f))})

\* Pruner.removeEmptyDirs(dir) on the tree of the files left and the
\* directories dirs: filepath.Walk calls the callback on a directory before
\* it enters it, and os.Remove succeeds on an empty directory only, so the
\* directories removed are those that are empty when the walk starts.
removeEmptyDirs(p, dir, left, dirs) ==
    IF p.DryRun THEN {}
    ELSE {d \in dirs \ {dir} :
            /\ \A f \in left : ~IsPrefix(d, f)
            /\ \A d2 \in dirs : d2 # d => ~IsPrefix(d, d2)}

\* A caller builds a Pruner from the run's configuration (its directories,
\* format, ignore rules and dry-run flag) and calls Prune: the channel is
\* made and the input walk started.
PruneStart ==
    /\ pcMain = "returned"
    /\ runErr = "nil"
    /\ prunePc = "idle"
    /\ Len(pruneLog) < MaxPrunes
    /\ LET im == NewIgnoreMatcher(cfg.IgnoreFile, ignoreEnv)
           m == IF im.err THEN EmptyMatcher ELSE im.m
       IN  /\ pruner' = NewPruner(InputDir, OutputDir, cfg.Format, m,
                                  cfg.DryRun)
           /\ matcher' = m
    /\ expectedFiles' = {}
    /\ files' = <<>>
    /\ closed' = FALSE
    /\ walkPc' = "walking"
    /\ walkPos' = 1
    /\ walkSkip' = {}
    /\ walkFor' = "prune"
    /\ sent' = [sent EXCEPT !.prune = <<>>]
    /\ prunePc' = "drain"
    /\ UNCHANGED <<cfg, ignoreEnv, inTree, inFault, badSrc, outFiles, outDirs,
                   rmFails, pcMain, runErr, proc, closes, wk, wgCount, taken, takers,
                   failed, writes, barCount, pruneStep, pruneLog,
                   call, ret>>

\* "for file := range files": one descriptor into expectedFiles
PruneRecv ==
    /\ prunePc = "drain"
    /\ files # <<>>
    /\ expectedFiles' = expectedFiles
                          \cup {getOutputPath(pruner, Head(files).RelativePath)}
    /\ files' = Tail(files)
    /\ UNCHANGED <<cfg, ignoreEnv, inTree, inFault, badSrc, outFiles, outDirs,
                   rmFails, pcMain, runErr, matcher, proc, closed, walkPc,
                   walkPos, walkSkip, walkFor, sent, closes, wk, wgCount,
                   taken, takers, failed, writes, barCount, pruneStep, pruner,
                   prunePc, pruneLog,
                   call, ret>>

\* PruneSweep not waiting for the channel to be drained and closed
PruneSweepAtOnce ==
    /\ prunePc = "drain"
    /\ LET expected == [q \in {Rel(pruner.OutputDir, f) : f \in DOMAIN outFiles}
                          |-> q \in expectedFiles]
           walkErr == pruner.OutputDir \notin outDirs
           gone == IF walkErr THEN {} ELSE PrunedFiles(pruner, expected)
           left == DOMAIN outFiles \ gone
           goneDirs == IF walkErr THEN {}
                       ELSE removeEmptyDirs(pruner, pruner.OutputDir, left,
                                            outDirs)
       IN  /\ outFiles' = [f \in left |-> outFiles[f]]
           /\ outDirs' = outDirs \ goneDirs
           /\ pruneLog' = Append(pruneLog,
                [dryRun |-> pruner.DryRun,
                 removedCount |-> IF walkErr THEN 0
                                  ELSE RemovedCount(pruner, expected),
                 err |-> IF walkErr THEN "walk" ELSE "nil",
                 before |-> DOMAIN outFiles,
                 expected |-> expectedFiles,
                 removed |-> gone,
                 removedDirs |-> goneDirs])
    /\ prunePc' = "idle"
    /\ UNCHANGED <<cfg, ignoreEnv, inTree, inFault, badSrc, rmFails, pcMain,
                   runErr, matcher, proc, files, closed, walkPc, walkPos,
                   walkSkip, walkFor, sent, closes, wk, wgCount, taken, takers,
                   failed, writes, barCount, pruneStep, pruner,
                   expectedFiles,
                   call, ret>>

\* the channel is closed and drained: the walk of the output root, then
\* removeEmptyDirs unless the walk failed, then the return
PruneSweep ==
    /\ prunePc = "drain"
    /\ files = <<>>
    /\ closed
    /\ LET expected == [q \in {Rel(pruner.OutputDir, f) : f \in DOMAIN outFiles}
                          |-> q \in expectedFiles]
           walkErr == pruner.OutputDir \notin outDirs
           gone == IF walkErr THEN {} ELSE PrunedFiles(pruner, expected)
           left == DOMAIN outFiles \ gone
           goneDirs == IF walkErr THEN {}
                       ELSE removeEmptyDirs(pruner, pruner.OutputDir, left,
                                            outDirs)
       IN  /\ outFiles' = [f \in left |-> outFiles[f]]
           /\ outDirs' = outDirs \ goneDirs
           /\ pruneLog' = Append(pruneLog,
                [dryRun |-> pruner.DryRun,
                 removedCount |-> IF walkErr THEN 0
                                  ELSE RemovedCount(pruner, expected),
                 err |-> IF walkErr THEN "walk" ELSE "nil",
                 before |-> DOMAIN outFiles,
                 expected |-> expectedFiles,
                 removed |-> gone,
                 removedDirs |-> goneDirs])
    /\ prunePc' = "idle"
    /\ UNCHANGED <<cfg, ignoreEnv, inTree, inFault, badSrc, rmFails, pcMain,
                   runErr, matcher, proc, files, closed, walkPc, walkPos,
                   walkSkip, walkFor, sent, closes, wk, wgCount, taken, takers,
                   failed, writes, barCount, pruneStep, pruner,
                   expectedFiles,
                   call, ret>>

(***************************************************************************)
(* processor: orientation, resize geometry, metadata curation             *)
(***************************************************************************)
\* Processor.fixOrientation on the size of the image: imaging.Rotate270
\* (orientation 6) and imaging.Rotate90 (orientation 8) exchange width and
\* height, imaging.Rotate180 (orientation 3) and every other value keep them
fixOrientation(imgW, imgH, orientation) ==
    CASE orientation = 3 -> <<imgW, imgH>>
      [] orientation = 6 -> <<imgH, imgW>>
      [] orientation = 8 -> <<imgH, imgW>>
      [] OTHER -> <<imgW, imgH>>

\* An image with its pixels: at each position of the W x H grid (x to the
\* right, y downwards, from 0) the position in the decoded image of the
\* pixel that is there.
Grid(w, h) == (0..(w - 1)) \X (0..(h - 1))

\* the image as decoded
Decoded(w, h) == [W |-> w, H |-> h, px |-> [c \in Grid(w, h) |-> c]]

\* imaging.Rotate90: 90 degrees counter-clockwise; row y of the result is
\* column W-1-y of the source, read downwards
Rotate90(img) ==
    [W |-> img.H, H |-> img.W,
     px |-> [c \in Grid(img.H, img.W) |-> img.px[<<img.W - 1 - c[2], c[1]>>]]]

\* imaging.Rotate180
Rotate180(img) ==
    [W |-> img.W, H |-> img.H,
     px |-> [c \in Grid(img.W, img.H) |->
               img.px[<<img.W - 1 - c[1], img.H - 1 - c[2]>>]]]

\* imaging.Rotate270: 270 degrees counter-clockwise; row y of the result is
\* column y of the source, read upwards
Rotate270(img) ==
    [W |-> img.H, H |-> img.W,
     px |-> [c \in Grid(img.H, img.W) |-> img.px[<<c[2], img.H - 1 - c[1]>>]]]

\* an Orientation entry of exif.GetFlatExifData with its typed value
OrientationTag(type, vals) ==
    [TagName |-> "Orientation", Value |-> [type |-> type, vals |-> vals]]

\* an entry of another name
OtherTag(name) == [TagName |-> name, Value |-> [type |-> "ascii", vals |-> <<>>]]

RECURSIVE orientationOf(_)
\* the loop of fixOrientation: the first entry named Orientation ends it;
\* its value counts when it is a []uint16 or a []uint8 that is not empty
orientationOf(entries) ==
    IF entries = <<>> THEN 0
    ELSE LET tag == Head(entries)
         IN  IF tag.TagName = "Orientation"
             THEN IF /\ tag.Value.type \in {"uint16", "uint8"}
                     /\ Len(tag.Value.vals) > 0
                  THEN tag.Value.vals[1]
                  ELSE 0
             ELSE orientationOf(Tail(entries))

\* fixOrientationImage with the rotations of 6 and 8 exchanged
fixOrientationImageMirrored(img, opens, exif) ==
    IF ~opens \/ ~exif.found \/ ~exif.parses THEN img
    ELSE LET orientation == orientationOf(exif.entries)
         IN  CASE orientation = 3 -> Rotate180(img)
               [] orientation = 6 -> Rotate90(img)
               [] orientation = 8 -> Rotate270(img)
               [] OTHER -> img

\* Processor.fixOrientation on the pixels: opens is FALSE when os.Open of
\* the source fails, exif is what the source holds
fixOrientationImage(img, opens, exif) ==
    IF ~opens \/ ~exif.found \/ ~exif.parses THEN img
    ELSE LET orientation == orientationOf(exif.entries)
         IN  CASE orientation = 3 -> Rotate180(img)
               [] orientation = 6 -> Rotate270(img)
               [] orientation = 8 -> Rotate90(img)
               [] OTHER -> img

\* FitTarget with the configured width and height taken as they are
FitTargetAsConfigured(p, imgW, imgH) == <<p.Width, p.Height>>

\* step 4 of ProcessFile: the fit target for an image of the given size
FitTarget(p, imgW, imgH) ==
    LET frameLong == IF p.Height > p.Width THEN p.Height ELSE p.Width
        frameShort == IF p.Height < p.Width THEN p.Height ELSE p.Width
    IN  IF imgW >= imgH THEN <<frameLong, frameShort>>
        ELSE <<frameShort, frameLong>>

\* int(x) of the float64 quotient a/b, a and b whole numbers: the quotient
\* truncated; where the exact quotient is whole, the float64 quotient
\* (computed through the rounded aspect ratio) may lie just below it and
\* truncate to one less
TruncQuot(a, b) ==
    IF a % b = 0 /\ a \div b >= 1 THEN {a \div b, (a \div b) - 1}
    ELSE {a \div b}

\* imaging.Resize on sizes, for a width or height of 0: that side follows
\* from the aspect ratio, rounded, and is at least 1
ResizeSide(dst, other, srcSide, srcOther) ==
    IF dst # 0 THEN dst
    ELSE LET r == (2 * other * srcSide + srcOther) \div (2 * srcOther)
         IN  IF r < 1 THEN 1 ELSE r

\* Fit giving the box whatever the source
FitFill(srcW, srcH, maxW, maxH) == {<<maxW, maxH>>}

\* imaging.Fit on sizes: the sizes it may return for a source of
\* srcW x srcH and the box maxW x maxH
Fit(srcW, srcH, maxW, maxH) ==
    IF maxW <= 0 \/ maxH <= 0 \/ srcW <= 0 \/ srcH <= 0 THEN {<<0, 0>>}
    ELSE IF srcW <= maxW /\ srcH <= maxH THEN {<<srcW, srcH>>}
    ELSE IF srcW * maxH > maxW * srcH
    THEN {<<maxW, ResizeSide(newH, maxW, srcH, srcW)>> :
            newH \in TruncQuot(maxW * srcH, srcW)}
    ELSE {<<ResizeSide(newW, maxH, srcW, srcH), maxH>> :
            newW \in TruncQuot(maxH * srcW, srcH)}

\* steps 3 and 4 of ProcessFile on sizes: the size of the image that is
\* encoded, for a decoded image of imgW x imgH with the orientation tag
ResizedSize(p, imgW, imgH, orientation) ==
    LET o == fixOrientation(imgW, imgH, orientation)
        t == FitTarget(p, o[1], o[2])
    IN  Fit(o[1], o[2], t[1], t[2])

\* allowedTags with further tags let through
allowedTagsAndMore ==
    {"DateTime", "DateTimeOriginal", "CreateDate", "OffsetTime",
     "OffsetTimeOriginal", "OffsetTimeDigitized", "Make", "Model",
     "GPSLatitude", "GPSLongitude", "GPSAltitude", "GPSDateStamp",
     "GPSTimeStamp", "GPSProcessingMethod", "GPSAreaInformation",
     "Software", "ImageDescription"}

\* the allowedTags map of rebuildExif
allowedTags ==
    {"DateTime", "DateTimeOriginal", "CreateDate", "OffsetTime",
     "OffsetTimeOriginal", "OffsetTimeDigitized", "Make", "Model",
     "GPSLatitude", "GPSLongitude", "GPSAltitude", "GPSDateStamp",
     "GPSTimeStamp", "GPSProcessingMethod", "GPSAreaInformation"}

\* Processor.rebuildExif on the tag names of the block: entries are the
\* tags exif.GetFlatExifData lists (parses is FALSE when it fails), addFails
\* the tags the builder refuses (the error is logged and the tag left out)
rebuildExif(entries, parses, addFails) ==
    IF ~parses THEN [err |-> TRUE, tags |-> {}]
    ELSE [err |-> FALSE,
          tags |-> {tag \in entries :
                      /\ tag \in allowedTags
                      /\ tag # "Orientation"
                      /\ tag \notin addFails}]

(***************************************************************************)
(* Functions of the program called on their own                            *)
(***************************************************************************)
\* the characters of the file names: the ten that NormalizeFilename
\* replaces, a letter and the dot
NameChars == {"\\", "/", ":", ";", "*", "?", "\"", "<", ">", "|", "a", "."}

Names == UNION {[1..k -> NameChars] : k \in 0..MaxNameLen}

Formats == {"jpg", "jpeg", "webp", "png", ""}

\* the values of the orientation tag: the four the code knows, a mirrored
\* one and none
Orientations == {0, 1, 2, 3, 6, 8}

\* tag names of a source's metadata block
ExifTags == {"DateTime", "DateTimeOriginal", "GPSLatitude", "Make",
             "Orientation", "Software"}

GetOutputFilenameCalls ==
    {[fn |-> "GetOutputFilename", args |-> <<name, format>>] :
        name \in Names, format \in Formats}

ResizeCalls ==
    {[fn |-> "resize", args |-> <<w, h, imgW, imgH, o>>] :
        w \in 1..MaxFrameSide, h \in 1..MaxFrameSide,
        imgW \in 1..MaxImageSide, imgH \in 1..MaxImageSide,
        o \in Orientations}

rebuildExifCalls ==
    {[fn |-> "rebuildExif", args |-> <<entries, parses, addFails>>] :
        entries \in SUBSET ExifTags, parses \in BOOLEAN,
        addFails \in SUBSET {"Make"}}

\* a candidate that os.Stat finds and gitignore.CompileIgnoreFile cannot
\* read
UnreadableFile == [exists |-> TRUE, readable |-> FALSE, matched |-> {}]

\* what a candidate ignore file may be: absent, unreadable, or a rule file
\* that matches the one path named after the candidate
Candidates(path) == {NoFile, UnreadableFile, RuleFile({path})}

NewIgnoreMatcherCalls ==
    {[fn |-> "NewIgnoreMatcher",
      args |-> <<explicitGiven,
                 [explicit |-> e, home |-> h, input |-> i, cwd |-> c]>>] :
        explicitGiven \in BOOLEAN,
        e \in Candidates(<<N_a_jpg>>), h \in Candidates(<<N_d>>),
        i \in Candidates(<<N_s_jpg>>), c \in Candidates(<<N_x>>)}

\* the metadata handed to fixOrientation: none, a block that does not
\* parse, blocks without the tag, with the tag as a short of each value,
\* as a byte, of another type, empty, and twice
OrientationExifs ==
    {[found |-> FALSE, parses |-> FALSE, entries |-> <<>>],
     [found |-> TRUE, parses |-> FALSE, entries |-> <<>>],
     [found |-> TRUE, parses |-> TRUE, entries |-> <<>>],
     [found |-> TRUE, parses |-> TRUE, entries |-> <<OtherTag("Make")>>],
     [found |-> TRUE, parses |-> TRUE,
      entries |-> <<OrientationTag("uint8", <<6>>)>>],
     [found |-> TRUE, parses |-> TRUE,
      entries |-> <<OrientationTag("uint32", <<6>>)>>],
     [found |-> TRUE, parses |-> TRUE,
      entries |-> <<OrientationTag("uint16", <<>>)>>],
     [found |-> TRUE, parses |-> TRUE,
      entries |-> <<OtherTag("Make"), OrientationTag("uint16", <<3>>),
                    OrientationTag("uint16", <<6>>)>>]}
    \cup {[found |-> TRUE, parses |-> TRUE,
           entries |-> <<OtherTag("Make"), OrientationTag("uint16", <<v>>)>>] :
            v \in 0..9}

\* the tags of the blocks handed to the capture-time extraction
DateTagNames == {"DateTimeOriginal", "CreateDate", "Make"}

DateTagValues == {"t1", "t2", "zero", "bad"}

captureTimeCalls ==
    {[fn |-> "captureTime",
      args |-> <<[found |-> FALSE, parses |-> FALSE, entries |-> <<>>]>>],
     [fn |-> "captureTime",
      args |-> <<[found |-> TRUE, parses |-> FALSE, entries |-> <<>>]>>]}
    \cup {[fn |-> "captureTime",
           args |-> <<[found |-> TRUE, parses |-> TRUE,
                       entries |-> [i \in 1..k |-> Tag(n[i], v[i])]]>>] :
            k \in 0..MaxTags,
            n \in [1..MaxTags -> DateTagNames],
            v \in [1..MaxTags -> DateTagValues]}

fixOrientationCalls ==
    {[fn |-> "fixOrientation", args |-> <<w, h, opens, exif>>] :
        w \in 1..MaxPixelSide, h \in 1..MaxPixelSide, opens \in BOOLEAN,
        exif \in OrientationExifs}

Calls ==
    GetOutputFilenameCalls \cup ResizeCalls \cup rebuildExifCalls
        \cup NewIgnoreMatcherCalls \cup fixOrientationCalls
        \cup captureTimeCalls

CallGetOutputFilename ==
    /\ call.fn = "GetOutputFilename"
    /\ ~ret.done
    /\ ret' = [done |-> TRUE,
               val |-> GetOutputFilename(call.args[1], call.args[2])]
    /\ UNCHANGED <<progVars, call>>

\* steps 3 and 4 of ProcessFile by a Processor of the configured
\* resolution
CallResize ==
    /\ call.fn = "resize"
    /\ ~ret.done
    /\ \E size \in ResizedSize([Width |-> call.args[1],
                                Height |-> call.args[2]],
                               call.args[3], call.args[4], call.args[5]) :
         ret' = [done |-> TRUE, val |-> size]
    /\ UNCHANGED <<progVars, call>>

CallRebuildExif ==
    /\ call.fn = "rebuildExif"
    /\ ~ret.done
    /\ ret' = [done |-> TRUE,
               val |-> rebuildExif(call.args[1], call.args[2], call.args[3])]
    /\ UNCHANGED <<progVars, call>>

CallNewIgnoreMatcher ==
    /\ call.fn = "NewIgnoreMatcher"
    /\ ~ret.done
    /\ ret' = [done |-> TRUE,
               val |-> NewIgnoreMatcher(call.args[1], call.args[2])]
    /\ UNCHANGED <<progVars, call>>

CallFixOrientation ==
    /\ call.fn = "fixOrientation"
    /\ ~ret.done
    /\ ret' = [done |-> TRUE,
               val |-> fixOrientationImage(Decoded(call.args[1], call.args[2]),
                                           call.args[3], call.args[4])]
    /\ UNCHANGED <<progVars, call>>

\* step 3 of ProcessFile
CallCaptureTime ==
    /\ call.fn = "captureTime"
    /\ ~ret.done
    /\ ret' = [done |-> TRUE, val |-> captureTime(call.args[1])]
    /\ UNCHANGED <<progVars, call>>

(***************************************************************************)
(* The specification                                                       *)
(***************************************************************************)
\* the flag combinations handed to Run
Flags == {
    [DryRun |-> FALSE, Prune |-> TRUE,  Format |-> "webp", SkipExisting |-> FALSE],
    [DryRun |-> FALSE, Prune |-> FALSE, Format |-> "jpg",  SkipExisting |-> TRUE],
    [DryRun |-> TRUE,  Prune |-> TRUE,  Format |-> "webp", SkipExisting |-> FALSE],
    [DryRun |-> FALSE, Prune |-> TRUE,  Format |-> "webp", SkipExisting |-> TRUE] }

\* the failures of the environment met together: errors of the walk ("lstat":
\* os.Lstat of the root fails, "readdir": the directory cannot be read,
\* "rel": filepath.Rel fails) and sources on which a step of ProcessFile
\* fails: os.Open, the decoder, the encoder, rebuildExif, the embedding of
\* the metadata, the write of os.WriteFile, os.Chtimes ("chtimes"), os.Stat
\* of the source ("nostat"); "noexif" is a source without metadata, "nodate"
\* one whose metadata holds no date, "zerotime" one dated 0001:01:01
\* 00:00:00, "ok" one with metadata on which every step succeeds
Troubles == {
    [fault |-> NoFault, bad |-> AllOk],
    [fault |-> NoFault,
     bad |-> [AllOk EXCEPT ![2] = "embed", ![3] = "decode", ![4] = "write",
                           ![6] = "rebuild", ![8] = "encode",
                           ![10] = "open"]],
    [fault |-> [NoFault EXCEPT ![5] = "readdir", ![3] = "rel"],
     bad |-> [AllOk EXCEPT ![2] = "noexif", ![4] = "noexif"]],
    [fault |-> [NoFault EXCEPT ![1] = "lstat"], bad |-> AllOk],
    [fault |-> NoFault,
     bad |-> [AllOk EXCEPT ![2] = "chtimes", ![3] = "nodate",
                           ![4] = "zerotime", ![6] = "nostat",
                           ![8] = "nodate", ![10] = "chtimes"]] }

\* the output tree at the start, with the files os.Remove fails on
Outputs == {
    [dirs |-> {}, files |-> {}, rmFails |-> {}],
    [dirs |-> {OutputDir, OutputDir \o <<N_d>>, OutputDir \o <<N_d, N_e>>,
               OutputDir \o <<N_x>>},
     files |-> {OutputDir \o <<N_a_webp>>, OutputDir \o <<N_a_jpg>>,
                OutputDir \o <<N_o_webp>>, OutputDir \o <<N_d, N_a_webp>>},
     rmFails |-> {}],
    [dirs |-> {OutputDir, OutputDir \o <<N_x>>},
     files |-> {OutputDir \o <<N_a_webp>>, OutputDir \o <<N_o_webp>>},
     rmFails |-> {OutputDir \o <<N_o_webp>>}] }

\* no function is called on its own while the program runs
NoCall == [fn |-> "none", args |-> <<>>]

NoRet == [done |-> FALSE, val |-> <<>>]

\* what Run is handed and finds: the flags, the resolution, the worker
\* count, the ignore files, the input tree, the failures, the output tree
Installed ==
    /\ ignoreEnv \in IgnoreEnvs
    /\ \E fl \in Flags, res \in Resolutions, n \in 0..MaxWorkers :
         cfg = [Resolution |-> res, Workers |-> n, Prune |-> fl.Prune,
                DryRun |-> fl.DryRun, Format |-> fl.Format, Quality |-> 80,
                SkipExisting |-> fl.SkipExisting,
                IgnoreFile |-> ignoreEnv.explicit.exists]
    /\ inTree \in Trees
    /\ \E t \in Troubles : inFault = t.fault /\ badSrc = t.bad
    /\ \E o \in Outputs :
         /\ outFiles = [f \in o.files |-> OldContent]
         /\ outDirs = o.dirs
         /\ rmFails = o.rmFails

\* Run has not been called
NotStarted ==
    /\ pcMain = "start"
    /\ runErr = "nil"
    /\ matcher = EmptyMatcher
    /\ proc = NoProc
    /\ files = <<>>
    /\ closed = FALSE
    /\ walkPc = "idle"
    /\ walkPos = 1
    /\ walkSkip = {}
    /\ walkFor = "run"
    /\ sent = [run |-> <<>>, prune |-> <<>>]
    /\ closes = 0
    /\ wk = [w \in Workers |-> [pc |-> "idle", file |-> NoDesc]]
    /\ wgCount = 0
    /\ taken = <<>>
    /\ takers = {}
    /\ failed = {}
    /\ writes = {}
    /\ barCount = 0
    /\ pruneStep = FALSE
    /\ pruner = NoPruner
    /\ prunePc = "idle"
    /\ expectedFiles = {}
    /\ pruneLog = <<>>

Init ==
    /\ Installed
    /\ NotStarted
    /\ call = NoCall
    /\ ret = NoRet

Next ==
    \/ RunParseError
    \/ RunStart
    \/ WalkFilesStep
    \/ WalkFilesClose
    \/ \E w \in Workers : WorkerRecv(w)
    \/ \E w \in Workers : WorkerProcess(w)
    \/ \E w \in Workers : WorkerExit(w)
    \/ RunWait
    \/ RunPrune
    \/ PruneStart
    \/ PruneRecv
    \/ PruneSweep

Spec == Init /\ [][Next]_vars

\* Calls of single functions, the program not running: one call, drawn
\* from Calls, and its return.
PureInit ==
    /\ ignoreEnv = NoIgnoreFiles
    /\ cfg = [Resolution |-> <<"8", "x", "6">>, Workers |-> 1,
              Prune |-> FALSE, DryRun |-> FALSE, Format |-> "webp",
              Quality |-> 80, SkipExisting |-> FALSE, IgnoreFile |-> FALSE]
    /\ inTree = {1}
    /\ inFault = NoFault
    /\ badSrc = AllOk
    /\ outFiles = [f \in {} |-> OldContent]
    /\ outDirs = {}
    /\ rmFails = {}
    /\ NotStarted
    /\ call \in Calls
    /\ ret = NoRet

PureNext ==
    \/ CallGetOutputFilename
    \/ CallResize
    \/ CallRebuildExif
    \/ CallNewIgnoreMatcher
    \/ CallFixOrientation
    \/ CallCaptureTime

PureSpec == PureInit /\ [][PureNext]_vars

\* the steps of one call of Run: Run itself, its producer, its workers
RunNext ==
    \/ RunParseError
    \/ RunStart
    \/ WalkFilesStep
    \/ WalkFilesClose
    \/ \E w \in Workers : WorkerRecv(w)
    \/ \E w \in Workers : WorkerProcess(w)
    \/ \E w \in Workers : WorkerExit(w)
    \/ RunWait
    \/ RunPrune

\* The starts of Run that differ in what its termination depends on: the
\* tree, the errors, the rules, the worker count, dry-run, the resolution.
\* The output tree is empty, skip-existing is off and the time of every
\* destination can be set.
LiveInit ==
    /\ Init
    /\ outDirs = {}
    /\ ~cfg.SkipExisting
    /\ \A n \in Entries : badSrc[n] \notin {"chtimes", "nostat"}
    /\ ~ignoreEnv.home.exists
    /\ ~ignoreEnv.explicit.exists

\* One call of Run under the scheduler's guarantee: while some goroutine of
\* the program can take a step, one of them does.
FairSpec == LiveInit /\ [][RunNext]_vars /\ WF_vars(RunNext)

(***************************************************************************)
(* The claims                                                              *)
(***************************************************************************)
\* the number of times descriptor f was received by a worker
TakenCount(f) == Cardinality({i \in 1..Len(taken) : taken[i] = f})

SentRun == {sent.run[i] : i \in 1..Len(sent.run)}

RunReturned == pcMain = "returned" /\ walkPc # "idle"

\* C1: every descriptor WalkFiles sends on the queue of Run is received by
\* exactly one worker exactly once before Run returns: at no time has a
\* descriptor been received twice (by one worker or by two), only sent
\* descriptors are received, and when Run has returned every sent descriptor
\* has been received once.
C1_EachDescriptorOnce ==
    /\ \A i \in 1..Len(taken) :
         /\ taken[i] \in SentRun
         /\ TakenCount(taken[i]) = 1
    /\ RunReturned => \A f \in SentRun : TakenCount(f) = 1

\* C1 witness: Run has returned after two workers shared three descriptors
C1_Witness ==
    /\ RunReturned
    /\ Len(sent.run) >= 3
    /\ Cardinality(takers) >= 2

\* the destination path a worker of Run computes for a descriptor
DestOf(f) == DestPath(proc, f.Path, Join(OutputDir, Dir(f.RelativePath)))

\* C2: two distinct accepted source files of one run never have the same
\* destination path, so no two workers write the same file.
C2_DistinctDestinations ==
    \A f, g \in SentRun : f # g => DestOf(f) # DestOf(g)

\* C3: under fair scheduling Run always returns: the walk closes the queue,
\* the workers leave their loops and wg.Wait() ends.
C3_RunCompletes == <>(pcMain = "returned")

\* C3 witness: the producer is blocked on the full queue while a worker
\* still holds a descriptor
C3_Witness ==
    /\ walkPc = "walking"
    /\ walkFor = "run"
    /\ Len(files) = QueueCap
    /\ LET n == NextVisit(walkPos, walkSkip)
       IN  n <= Len(InputUniverse) /\ WalkFn(n, "none", matcher).send
    /\ \E w \in Workers : wk[w].pc = "proc"

\* C4: Run is at its prune step only when every worker has finished and no
\* descriptor is queued.
C4_PruneAfterWorkers ==
    /\ pcMain = "prune" =>
         /\ \A w \in Workers : wk[w].pc \in {"idle", "done"}
         /\ files = <<>>
         /\ barCount = Len(sent.run)
    /\ pruneStep => \A w \in Workers : wk[w].pc \in {"idle", "done"}

\* C4 witness: Run with the prune flag is at its prune step after the
\* workers processed descriptors
C4_Witness ==
    /\ pcMain = "prune"
    /\ cfg.Prune
    /\ Len(taken) >= 2
    /\ cfg.Workers = MaxWorkers

\* C5: a ProcessFile error stops nothing: no worker leaves its loop before
\* the queue is closed and drained, every descriptor received has been or
\* is being processed, and Run returns nil with every discovered descriptor
\* taken and processed.
C5_ErrorsDoNotStop ==
    failed # {} =>
        /\ pcMain = "wait" =>
             \A w \in Workers : wk[w].pc = "done" => closed /\ files = <<>>
        /\ barCount + Cardinality({w \in Workers : wk[w].pc = "proc"})
             = Len(taken)
        /\ RunReturned =>
             /\ runErr = "nil"
             /\ \A f \in SentRun : TakenCount(f) = 1
             /\ barCount = Len(sent.run)

\* C5 witness: Run has returned; its only worker, after a ProcessFile that
\* failed, took a later descriptor and wrote its destination
C5_Witness ==
    /\ RunReturned
    /\ cfg.Workers = 1
    /\ \E i, j \in 1..Len(taken) :
         /\ i < j
         /\ taken[i] \in failed
         /\ taken[j] \notin failed
         /\ DestOf(taken[j]) \in writes

\* What the claims on the walk and on the expected set speak of, stated on
\* the tree itself.
NamesOf(n) == InputUniverse[n].names

\* the directories above entry n, the root included
Ancestors(n) ==
    {a \in Entries : IsDirEntry(a) /\ a # n /\ IsPrefix(NamesOf(a), NamesOf(n))}

\* the rules match the entry's root-relative path or its full path
IgnoredEntry(n) ==
    /\ ~matcher.nil
    /\ \/ (IF NamesOf(n) = <<>> THEN <<Dot>> ELSE NamesOf(n)) \in matcher.matched
       \/ (InputDir \o NamesOf(n)) \in matcher.matched

HasImageExtension(n) ==
    /\ NamesOf(n) # <<>>
    /\ ToLower(Ext(NamesOf(n)[Len(NamesOf(n))])) \in
         { <<".", "j", "p", "g">>, <<".", "j", "p", "e", "g">>,
           <<".", "h", "e", "i", "c">> }

\* an entry of one of the kinds, with an image extension, not ignored and
\* below no ignored directory
Accepted(n, kinds) ==
    /\ n \in inTree
    /\ InputUniverse[n].kind \in kinds
    /\ HasImageExtension(n)
    /\ ~IgnoredEntry(n)
    /\ \A a \in Ancestors(n) : ~IgnoredEntry(a)

\* the walk meets no error on the entry or on a directory above it
ErrorFree(n) == \A a \in Ancestors(n) \cup {n} : inFault[a] = "none"

\* the walk gets to the entry: no directory above it is unreadable, and the
\* entry itself raises no error
Reached(n) ==
    /\ inFault[n] = "none"
    /\ \A a \in Ancestors(n) : inFault[a] \notin {"lstat", "readdir"}

SentNow == {sent[walkFor][i] : i \in 1..Len(sent[walkFor])}

SentEntry(n) == \E f \in SentNow : f.Path = InputDir \o NamesOf(n)

NoDuplicateSent ==
    \A i, j \in 1..Len(sent[walkFor]) :
        i # j => sent[walkFor][i] # sent[walkFor][j]

\* every descriptor a worker received names an entry with an image
\* extension that the rules do not match
TakenPassedChecks ==
    \A i \in 1..Len(taken) :
        \E n \in inTree :
            /\ taken[i].Path = InputDir \o NamesOf(n)
            /\ HasImageExtension(n)
            /\ ~IgnoredEntry(n)

C7_NothingBelowIgnoredDir ==
    \A n \in inTree :
        (\E a \in Ancestors(n) : IgnoredEntry(a)) => ~SentEntry(n)

\* C7 witness: a finished walk left out an image file that the rules do not
\* match, below a directory they match
C7_Witness ==
    /\ walkPc = "done"
    /\ \E n \in inTree :
         /\ InputUniverse[n].kind = "file"
         /\ HasImageExtension(n)
         /\ ~IgnoredEntry(n)
         /\ ErrorFree(n)
         /\ \E a \in Ancestors(n) : IgnoredEntry(a)
         /\ ~SentEntry(n)

\* C8: an error on an entry does not end the walk: the entry is not
\* emitted, and when the walk has finished the queue is closed and every
\* accepted entry the walk could get to has been emitted.
C8_WalkSurvivesErrors ==
    /\ \A n \in inTree : inFault[n] # "none" => ~SentEntry(n)
    /\ walkPc = "done" =>
         /\ closed
         /\ \A n \in inTree :
              (Accepted(n, {"file", "symlink"}) /\ Reached(n)) => SentEntry(n)

\* C8 witness: a finished walk met an error on an entry and emitted an
\* entry that comes after it
C8_Witness ==
    /\ walkPc = "done"
    /\ closed
    /\ \E n, k \in inTree :
         /\ n < k
         /\ inFault[n] # "none"
         /\ SentEntry(k)

\* the ExpectedOutputSet: for every accepted input entry the walk gets to,
\* its directory, then its name with the extension stripped, the invalid
\* characters replaced and the format's extension added
ExpectedOutputSet ==
    { SubSeq(NamesOf(n), 1, Len(NamesOf(n)) - 1)
        \o <<GetOutputFilename(NamesOf(n)[Len(NamesOf(n))], cfg.Format)>> :
      n \in {k \in inTree : Accepted(k, {"file", "symlink"}) /\ Reached(k)} }

\* an output file's path below the output root
OutRel(f) == SubSeq(f, Len(OutputDir) + 1, Len(f))

C10_PruneIdempotent ==
    \A i, j \in 1..Len(pruneLog) :
        (/\ i < j
         /\ ~pruneLog[i].dryRun
         /\ pruneLog[i].err = "nil"
         /\ ~pruneLog[j].dryRun) =>
            /\ pruneLog[j].removed = {}
            /\ pruneLog[j].removedCount = 0

\* C10 witness: a non-dry-run Prune removed files and a second one has
\* returned
C10_Witness ==
    /\ Len(pruneLog) >= 2
    /\ ~pruneLog[1].dryRun
    /\ pruneLog[1].err = "nil"
    /\ pruneLog[1].removedCount >= 1
    /\ ~pruneLog[2].dryRun
    /\ pruneLog[2].err = "nil"

\* an input entry's output path below the output root: its directory, then
\* its name through GetOutputFilename
InputOutRel(n) ==
    SubSeq(NamesOf(n), 1, Len(NamesOf(n)) - 1)
        \o <<GetOutputFilename(NamesOf(n)[Len(NamesOf(n))], cfg.Format)>>

\* an image file of the input tree that the rules exclude, by itself or by
\* a directory above it
IgnoredInput(n) ==
    /\ n \in inTree
    /\ ~IsDirEntry(n)
    /\ HasImageExtension(n)
    /\ \/ IgnoredEntry(n)
       \/ \E a \in Ancestors(n) : IgnoredEntry(a)

\* C11: the set of expected outputs a Prune builds never contains the
\* output path of an input file that the rules ignore, and a non-dry-run
\* Prune leaves no output file at such a path (a file on which os.Remove
\* fails excepted).
C11_IgnoredInputNotExpected ==
    \A i \in 1..Len(pruneLog) :
        LET r == pruneLog[i]
        IN  r.err = "nil" =>
              \A n \in inTree :
                  IgnoredInput(n) =>
                    /\ InputOutRel(n) \notin r.expected
                    /\ ~r.dryRun =>
                         (OutputDir \o InputOutRel(n)) \notin
                             ((r.before \ r.removed) \ rmFails)

\* a directory with no entry in it
EmptyDir(d) ==
    /\ \A f \in DOMAIN outFiles : ~IsPrefix(d, f)
    /\ \A d2 \in outDirs : d2 # d => ~IsPrefix(d, d2)

\* C12: when a non-dry-run Prune has returned without error, no directory
\* under the output root (the root excepted) is empty.
C12_NoEmptyDirLeft ==
    (/\ Len(pruneLog) >= 1
     /\ prunePc = "idle"
     /\ ~pruneLog[Len(pruneLog)].dryRun
     /\ pruneLog[Len(pruneLog)].err = "nil") =>
        \A d \in outDirs \ {OutputDir} : ~EmptyDir(d)

\* C13: with the dry-run flag set no step of the run changes the output
\* tree: no worker writes a file or makes a directory, and Prune removes no
\* file and no directory.
C13_DryRunChangesNothing ==
    [][cfg.DryRun => (outFiles' = outFiles /\ outDirs' = outDirs)]_vars

\* C13 witness: a dry run whose workers handled descriptors and whose Prune
\* reported orphans, with the output tree as it was
C13_Witness ==
    /\ cfg.DryRun
    /\ barCount >= 2
    /\ Len(pruneLog) >= 1
    /\ pruneLog[1].dryRun
    /\ pruneLog[1].removedCount >= 2
    /\ pruneLog[1].removed = {}
    /\ DOMAIN outFiles = pruneLog[1].before
    /\ \E d \in outDirs : EmptyDir(d)

\* worker w runs the body of its loop in this step
Processes(w) == wk[w].pc = "proc" /\ wk'[w].pc # "proc"

\* the destination of the descriptor worker w holds exists
DestExists(w) == Exists(DestOf(wk[w].file), outFiles, outDirs)

\* every file of the output tree is as it was before the step
FilesKept ==
    \A f \in DOMAIN outFiles :
        f \in DOMAIN outFiles' /\ outFiles'[f] = outFiles[f]

\* C14 as stated: with skip-existing set, a ProcessFile whose destination
\* exists returns success and changes no file that exists (bytes and
\* modification time), so that nothing a run has produced is changed by a
\* later ProcessFile.
C14_SkipExistingSucceeds ==
    [][\A w \in Workers :
         (proc.SkipExisting /\ ~cfg.DryRun /\ Processes(w)) =>
            /\ FilesKept
            /\ DestExists(w) => wk[w].file \notin failed']_vars

\* C14 amended: with skip-existing set, a ProcessFile whose source opens
\* and decodes and whose destination exists returns success; whatever the
\* source, a ProcessFile changes no file that exists (bytes and
\* modification time), so that nothing a run has produced is changed by a
\* later ProcessFile.
C14_SkipExistingKeepsFiles ==
    [][\A w \in Workers :
         (proc.SkipExisting /\ ~cfg.DryRun /\ Processes(w)) =>
            /\ FilesKept
            /\ (/\ DestExists(w)
                /\ badSrc[EntryOf(wk[w].file.Path)] \notin {"open", "decode"})
                 => wk[w].file \notin failed']_vars

\* C14 witness: a run with skip-existing has returned; one source met a
\* destination from before the run and left it as it was, another source
\* had no destination yet and wrote it
C14_Witness ==
    /\ RunReturned
    /\ proc.SkipExisting
    /\ ~cfg.DryRun
    /\ \E i \in 1..Len(taken) :
         /\ taken[i] \notin failed
         /\ DestOf(taken[i]) \in DOMAIN outFiles
         /\ outFiles[DestOf(taken[i])] = OldContent
    /\ writes # {}

\* C15: a ProcessFile changes no file but its destination; after it the
\* destination is as it was before or holds complete final bytes, never a
\* part of them; when opening, decoding or encoding fails it returns an
\* error and has created or changed no file.
C15_NoPartialDestination ==
    [][\A w \in Workers :
         (~cfg.DryRun /\ Processes(w)) =>
            LET file == wk[w].file
                dest == DestOf(file)
                bad == badSrc[EntryOf(file.Path)]
            IN  /\ \A f \in DOMAIN outFiles \cup DOMAIN outFiles' :
                     f # dest =>
                       /\ f \in DOMAIN outFiles
                       /\ f \in DOMAIN outFiles'
                       /\ outFiles'[f] = outFiles[f]
                /\ dest \in DOMAIN outFiles' =>
                     \/ /\ dest \in DOMAIN outFiles
                        /\ outFiles'[dest] = outFiles[dest]
                     \/ outFiles'[dest].data # "partial"
                /\ bad \in {"open", "decode", "encode"} =>
                     /\ file \in failed'
                     /\ outFiles' = outFiles]_vars

\* C16: when the source has metadata and rebuilding or embedding the
\* curated block fails, ProcessFile returns no error and, unless it skips
\* an existing destination, the destination holds the encoder's output.
C16_EmbedFailureKeepsImage ==
    [][\A w \in Workers :
         LET file == wk[w].file
             dest == DestOf(file)
         IN  (/\ ~cfg.DryRun
              /\ Processes(w)
              /\ badSrc[EntryOf(file.Path)] \in {"rebuild", "embed"}) =>
                /\ file \notin failed'
                /\ ~(proc.SkipExisting /\ DestExists(w)) =>
                     /\ dest \in DOMAIN outFiles'
                     /\ outFiles'[dest].src = file.Path
                     /\ outFiles'[dest].data = "encoded"]_vars

\* a resize has been called on its own and has returned
Resized == call.fn = "resize" /\ ret.done

\* the size of the image after auto-orientation: the orientations 6 and 8
\* turn it by a quarter
Oriented ==
    IF call.args[5] \in {6, 8} THEN <<call.args[4], call.args[3]>>
    ELSE <<call.args[3], call.args[4]>>

Max(a, b) == IF a >= b THEN a ELSE b

Min(a, b) == IF a <= b THEN a ELSE b

Abs(a) == IF a >= 0 THEN a ELSE 0 - a

C18_AspectWithinEpsilon ==
    Resized =>
        100 * Abs(ret.val[1] * Oriented[2] - Oriented[1] * ret.val[2])
            < ret.val[2] * Oriented[2]

\* C18 amended: a source that fits the target keeps its size; otherwise the
\* side that limits the scaling is the target's and the other side is the
\* exactly scaled value cut to whole pixels: at most one pixel below the
\* exact value and never above it, and at least 1.
C18_AspectWithinOnePixel ==
    Resized =>
        LET sw == Oriented[1]
            sh == Oriented[2]
            t == IF sw >= sh
                 THEN <<Max(call.args[1], call.args[2]),
                        Min(call.args[1], call.args[2])>>
                 ELSE <<Min(call.args[1], call.args[2]),
                        Max(call.args[1], call.args[2])>>
            ow == ret.val[1]
            oh == ret.val[2]
        IN  IF sw <= t[1] /\ sh <= t[2]
            THEN ow = sw /\ oh = sh
            ELSE IF sw * t[2] > t[1] * sh
            THEN /\ ow = t[1]
                 /\ oh >= 1
                 /\ oh = 1 \/ oh * sw <= ow * sh
                 /\ ow * sh <= (oh + 1) * sw
            ELSE /\ oh = t[2]
                 /\ ow >= 1
                 /\ ow = 1 \/ ow * sh <= oh * sw
                 /\ oh * sw <= (ow + 1) * sh

\* C18 witness: a 5x3 image in the resolution 4x3 comes out 4x2
C18_Witness ==
    /\ Resized
    /\ call.args = <<4, 3, 5, 3, 1>>
    /\ ret.val = <<4, 2>>

\* the characters the statement lists
ListedChars == {"\\", "/", ":", ";", "*", "?", "\"", "<", ">", "|"}

\* the index of the dot that starts the extension of a file name (the last
\* dot, with no separator after it), 0 when the name has no extension
ExtStart(name) ==
    IF \E i \in 1..Len(name) :
          /\ name[i] = "."
          /\ \A j \in i + 1..Len(name) : name[j] \notin {".", "/"}
    THEN CHOOSE i \in 1..Len(name) :
          /\ name[i] = "."
          /\ \A j \in i + 1..Len(name) : name[j] \notin {".", "/"}
    ELSE 0

\* C19: GetOutputFilename(name, format) is the name without its last
\* extension, each listed character replaced by one underscore, followed by
\* .jpg for the formats jpg and jpeg and by .webp for every other format;
\* it contains none of the listed characters.
C19_OutputFilename ==
    (call.fn = "GetOutputFilename" /\ ret.done) =>
        LET name == call.args[1]
            out == ret.val
            stemLen == IF ExtStart(name) = 0 THEN Len(name)
                       ELSE ExtStart(name) - 1
            ext == IF call.args[2] \in {"jpg", "jpeg"}
                   THEN <<".", "j", "p", "g">>
                   ELSE <<".", "w", "e", "b", "p">>
        IN  /\ Len(out) = stemLen + Len(ext)
            /\ \A i \in 1..stemLen :
                 out[i] = IF name[i] \in ListedChars THEN "_" ELSE name[i]
            /\ SubSeq(out, stemLen + 1, Len(out)) = ext
            /\ \A i \in 1..Len(out) : out[i] \notin ListedChars

\* C19 witness: ":.a" with the format jpeg gives "_.jpg"
C19_Witness ==
    /\ call.fn = "GetOutputFilename"
    /\ ret.done
    /\ call.args = << <<":", ".", "a">>, "jpeg" >>
    /\ ret.val = <<"_", ".", "j", "p", "g">>

\* the allow-list: the dates, the offset times, make and model, the GPS
\* fields
AllowList ==
    {"DateTime", "DateTimeOriginal", "CreateDate",
     "OffsetTime", "OffsetTimeOriginal", "OffsetTimeDigitized",
     "Make", "Model",
     "GPSLatitude", "GPSLongitude", "GPSAltitude", "GPSDateStamp",
     "GPSTimeStamp", "GPSProcessingMethod", "GPSAreaInformation"}

SrcKind(w) == badSrc[EntryOf(wk[w].file.Path)]

\* the dates the metadata of the source of worker w carries: the values of
\* its date tags that are dates, in the order of the block
SrcDates(w) ==
    LET x == SrcExif(SrcKind(w))
    IN  SelectSeq(x.entries,
                  LAMBDA tag : /\ tag.TagName \in {"DateTimeOriginal",
                                                   "CreateDate"}
                               /\ tag.FormattedFirst # "bad")

\* worker w runs a ProcessFile in this step that returns no error and does
\* not skip an existing destination
ProcessesToTheEnd(w) ==
    /\ ~cfg.DryRun
    /\ Processes(w)
    /\ wk[w].file \notin failed'
    /\ ~(proc.SkipExisting /\ DestExists(w))

IsNumberText(t) ==
    /\ Len(t) >= 1
    /\ \/ \A i \in 1..Len(t) : t[i] \in Digits
       \/ /\ Len(t) >= 2
          /\ t[1] \in {"+", "-"}
          /\ \A i \in 2..Len(t) : t[i] \in Digits

\* the text is <width>x<height>: two whole numbers with one x between
WidthXHeight(res) ==
    \E k \in 1..Len(res) :
        /\ res[k] = "x"
        /\ \A j \in 1..Len(res) : res[j] = "x" => j = k
        /\ IsNumberText(SubSeq(res, 1, k - 1))
        /\ IsNumberText(SubSeq(res, k + 1, Len(res)))

\* C22: when the resolution string is not <width>x<height>, Run returns an
\* error and has started nothing: no walk, no worker, no descriptor sent or
\* received, no Prune, and the output tree is the one Run found.
C22_ParseErrorStartsNothing ==
    ~WidthXHeight(cfg.Resolution) =>
        /\ pcMain \in {"start", "returned"}
        /\ pcMain = "returned" => runErr # "nil"
        /\ walkPc = "idle"
        /\ \A w \in Workers : wk[w].pc = "idle"
        /\ wgCount = 0
        /\ ~closed
        /\ sent = [run |-> <<>>, prune |-> <<>>]
        /\ taken = <<>>
        /\ barCount = 0
        /\ writes = {}
        /\ pruneLog = <<>>
        /\ prunePc = "idle"
        /\ \E o \in Outputs :
             /\ outFiles = [f \in o.files |-> OldContent]
             /\ outDirs = o.dirs

\* C22 witness: Run has returned the error of a resolution without a
\* width, with image files in the input tree and files in the output tree
C22_Witness ==
    /\ pcMain = "returned"
    /\ runErr = "invalid width"
    /\ cfg.Prune
    /\ {2, 3} \subseteq inTree
    /\ DOMAIN outFiles # {}

\* the paths of files and directories that this step creates, changes or
\* removes
Touched ==
    {f \in DOMAIN outFiles \cup DOMAIN outFiles' :
        \/ f \notin DOMAIN outFiles
        \/ f \notin DOMAIN outFiles'
        \/ outFiles'[f] # outFiles[f]}
    \cup ((outDirs' \ outDirs) \cup (outDirs \ outDirs'))

SearchOrder(explicitGiven) ==
    IF explicitGiven THEN <<"explicit", "home", "input", "cwd">>
    ELSE <<"home", "input", "cwd">>

\* the paths asked of a matcher
AskedPaths == {<<N_a_jpg>>, <<N_d>>, <<N_s_jpg>>, <<N_x>>, <<N_e>>}

\* C24: NewIgnoreMatcher takes the first candidate that exists in the
\* order explicit path, per-user file, file at the input root, file in the
\* current directory: its matcher matches what that file's rules match and
\* nothing of a later candidate (when the file cannot be read it returns an
\* error and no rules); when no candidate exists the matcher matches no
\* path.
C24_FirstExistingFileWins ==
    (call.fn = "NewIgnoreMatcher" /\ ret.done) =>
        LET order == SearchOrder(call.args[1])
            env == call.args[2]
            there == {k \in 1..Len(order) : env[order[k]].exists}
            m == ret.val.m
        IN  IF there = {}
            THEN /\ ~ret.val.err
                 /\ \A path \in AskedPaths :
                      ~Matches(m, path, TRUE) /\ ~Matches(m, path, FALSE)
            ELSE LET k == CHOOSE i \in there : \A j \in there : i <= j
                     first == env[order[k]]
                 IN  IF first.readable
                     THEN /\ ~ret.val.err
                          /\ \A path \in AskedPaths :
                               Matches(m, path, FALSE) <=>
                                   path \in first.matched
                     ELSE ret.val.err

\* C24 witness: with no explicit path given and no per-user file, the file
\* at the input root wins over the one in the current directory
C24_Witness ==
    /\ call.fn = "NewIgnoreMatcher"
    /\ ret.done
    /\ ~call.args[1]
    /\ call.args[2].explicit.exists
    /\ ~call.args[2].home.exists
    /\ call.args[2].input.readable
    /\ call.args[2].cwd.readable
    /\ Matches(ret.val.m, <<N_s_jpg>>, FALSE)
    /\ ~Matches(ret.val.m, <<N_x>>, FALSE)

\* the walks started so far: that of Run and one for every call of Prune
WalksStarted ==
    IF walkPc = "idle" THEN 0
    ELSE 1 + Len(pruneLog) + (IF prunePc = "drain" THEN 1 ELSE 0)

\* the queue at every moment: it holds at most its capacity; it is closed
\* exactly when its walk has ended, and every walk that has ended has
\* closed its queue once; what it holds are the descriptors sent last, in
\* the order sent, and what the workers of Run have received are the
\* descriptors sent first, in the order sent
QueueState ==
    /\ Len(files) <= QueueCap
    /\ closed <=> walkPc = "done"
    /\ closes = WalksStarted - (IF walkPc = "walking" THEN 1 ELSE 0)
    /\ LET s == sent[walkFor]
       IN  /\ Len(files) <= Len(s)
           /\ files = SubSeq(s, Len(s) - Len(files) + 1, Len(s))
    /\ Len(taken) <= Len(sent.run)
    /\ taken = SubSeq(sent.run, 1, Len(taken))
    /\ walkFor = "run" => taken \o files = sent.run

\* a step on the queue: a descriptor is added only by the walk while it is
\* under way, at the end of the queue, and is the one recorded as sent; a
\* descriptor is removed from the head only; nothing is added to a closed
\* queue, and the queue is closed only by the walk, with nothing left to
\* visit; a new queue starts empty and open
QueueStep ==
    LET fresh == walkPc' = "walking" /\ walkPc # "walking"
    IN  /\ fresh => files' = <<>> /\ ~closed'
        /\ (~fresh /\ Len(files') > Len(files)) =>
              /\ walkPc = "walking"
              /\ ~closed
              /\ Len(files') = Len(files) + 1
              /\ SubSeq(files', 1, Len(files)) = files
              /\ sent'[walkFor] = Append(sent[walkFor], files'[Len(files')])
        /\ (~fresh /\ Len(files') < Len(files)) => files' = Tail(files)
        /\ (~fresh /\ Len(files') = Len(files)) =>
              files' = files /\ sent' = sent
        /\ (~fresh /\ closed) => closed' /\ sent' = sent
        /\ (closed' /\ ~closed) =>
              /\ walkPc = "walking"
              /\ walkPc' = "done"
              /\ NextVisit(walkPos, walkSkip) > Len(InputUniverse)
              /\ closes' = closes + 1
              /\ files' = files

\* C25: only the walk sends on the queue and closes it; it closes it
\* exactly once, when the walk has ended and after its last send; nothing
\* is sent after the close; descriptors are delivered in the order sent;
\* the queue never holds more than its capacity.
C25_QueueDiscipline == []QueueState /\ [][QueueStep]_vars

\* C25 witness: the walk of Run has ended and closed the queue while the
\* queue was full, after workers had received descriptors
C25_Witness ==
    /\ walkFor = "run"
    /\ closed
    /\ Len(files) = QueueCap
    /\ Len(taken) >= 2
    /\ closes = 1

\* the Orientation tags of a block, in the order of the block
OrientationTags(exif) ==
    SelectSeq(exif.entries, LAMBDA tag : tag.TagName = "Orientation")

\* the orientation a source asks for: the value of its first Orientation
\* tag when the source opens, its metadata parses and the tag holds a short
\* or a byte; 0 in every other case
AskedOrientation(opens, exif) ==
    IF /\ opens
       /\ exif.found
       /\ exif.parses
       /\ OrientationTags(exif) # <<>>
       /\ OrientationTags(exif)[1].Value.type \in {"uint16", "uint8"}
       /\ OrientationTags(exif)[1].Value.vals # <<>>
    THEN OrientationTags(exif)[1].Value.vals[1]
    ELSE 0

\* C26: fixOrientation turns the decoded pixels by 180 degrees for
\* orientation 3 (the pixel of (x,y) comes to (w-1-x, h-1-y)), by 90
\* degrees clockwise for 6 (to (h-1-y, x) of an h x w image) and by 90
\* degrees counter-clockwise for 8 (to (y, w-1-x) of an h x w image), and
\* returns the image as decoded for every other value, a missing tag and
\* unreadable metadata; the resize decides between landscape and portrait
\* on the turned size.
C26_RotationByOrientation ==
    /\ (call.fn = "fixOrientation" /\ ret.done) =>
         LET w == call.args[1]
             h == call.args[2]
             o == AskedOrientation(call.args[3], call.args[4])
             out == ret.val
         IN  CASE o = 3 ->
                    /\ out.W = w /\ out.H = h
                    /\ \A c \in Grid(w, h) :
                         out.px[<<w - 1 - c[1], h - 1 - c[2]>>] = c
               [] o = 6 ->
                    /\ out.W = h /\ out.H = w
                    /\ \A c \in Grid(w, h) :
                         out.px[<<h - 1 - c[2], c[1]>>] = c
               [] o = 8 ->
                    /\ out.W = h /\ out.H = w
                    /\ \A c \in Grid(w, h) :
                         out.px[<<c[2], w - 1 - c[1]>>] = c
               [] OTHER -> out = Decoded(w, h)
    /\ Resized =>
         LET sw == Oriented[1]
             sh == Oriented[2]
             long == Max(call.args[1], call.args[2])
             short == Min(call.args[1], call.args[2])
         IN  ret.val \in (IF sw >= sh THEN Fit(sw, sh, long, short)
                                      ELSE Fit(sw, sh, short, long))

\* C26 witness: a 3x2 image with orientation 6 comes out 2x3, its top
\* left pixel at the top right
C26_Witness ==
    /\ call.fn = "fixOrientation"
    /\ ret.done
    /\ call.args[1] = 3
    /\ call.args[2] = 2
    /\ AskedOrientation(call.args[3], call.args[4]) = 6
    /\ ret.val.W = 2
    /\ ret.val.H = 3
    /\ ret.val.px[<<1, 0>>] = <<0, 0>>

\* the dates a block carries under a tag name, in the order of the block
DatesOf(exif, name) ==
    IF exif.found /\ exif.parses
    THEN SelectSeq(exif.entries,
                   LAMBDA tag : tag.TagName = name /\ tag.FormattedFirst # "bad")
    ELSE <<>>

OrphansOf(r) == {f \in r.before : OutRel(f) \notin r.expected}

\* C28: a non-dry-run Prune on which the removal of an orphan fails leaves
\* that file out of removedCount, removes every other orphan all the same
\* and returns no error: removedCount is the number of files removed, the
\* files removed are the orphans whose removal does not fail, and an error
\* is returned only when there was no file to remove.
C28_RemovalFailureSkipped ==
    \A i \in 1..Len(pruneLog) :
        LET r == pruneLog[i]
        IN  ~r.dryRun =>
              /\ r.removed = OrphansOf(r) \ rmFails
              /\ r.removedCount = Cardinality(r.removed)
              /\ r.before # {} => r.err = "nil"

\* C28 witness: a non-dry-run Prune met two orphans, failed to remove one
\* and removed the other: it returned 1 and no error
C28_Witness ==
    /\ Len(pruneLog) >= 1
    /\ LET r == pruneLog[1]
       IN  /\ ~r.dryRun
           /\ r.err = "nil"
           /\ OrphansOf(r) \cap rmFails # {}
           /\ r.removed # {}
           /\ Cardinality(OrphansOf(r)) = 2
           /\ r.removedCount = 1

\* C29: for every descriptor of the run, the path the worker's ProcessFile
\* writes is the output root joined with the path the Pruner of the same
\* format puts in its set of expected files; a Prune after the run removes
\* no file the run has written.
C29_ProcessorAndPrunerAgree ==
    /\ (proc # NoProc /\ pruner # NoPruner /\ pruner.Format = proc.Format) =>
         \A f \in SentRun :
             DestOf(f) = pruner.OutputDir \o getOutputPath(pruner, f.RelativePath)
    /\ \A i \in 1..Len(pruneLog) :
         /\ pruneLog[i].removed \cap writes = {}
         /\ pruneLog[i].err = "nil" =>
              \A f \in writes : OutRel(f) \in pruneLog[i].expected

\* C29 witness: a run has written the output of a:b.JPG and an output in a
\* directory below the root; the Prune after it removed an orphan and kept
\* both
C29_Witness ==
    /\ RunReturned
    /\ ~cfg.DryRun
    /\ Len(pruneLog) >= 1
    /\ pruneLog[1].removed # {}
    /\ \E f, g \in writes :
         /\ Len(f) = 2
         /\ f[2] = GetOutputFilename(N_ab_JPG, cfg.Format)
         /\ Len(g) >= 3
         /\ {f, g} \subseteq DOMAIN outFiles

\* the output files this step removes
RemovedNow == DOMAIN outFiles \ DOMAIN outFiles'

\* the expected paths of the descriptors the walk of this Prune has sent
ExpectedOfSent ==
    {getOutputPath(pruner, sent.prune[i].RelativePath) :
        i \in 1..Len(sent.prune)}

\* C30: Prune removes a file only when its input walk has ended, the queue
\* is closed and empty and every descriptor the walk sent is in the set of
\* expected files; no file it removes is the output of a descriptor of
\* that walk.
C30_PruneAfterDiscovery ==
    [][RemovedNow # {} =>
          /\ prunePc = "drain"
          /\ walkFor = "prune"
          /\ walkPc = "done"
          /\ NextVisit(walkPos, walkSkip) > Len(InputUniverse)
          /\ closed
          /\ files = <<>>
          /\ expectedFiles = ExpectedOfSent
          /\ \A f \in RemovedNow : OutRel(f) \notin ExpectedOfSent]_vars

\* C30 witness: a Prune whose walk sent more descriptors than the queue
\* holds has removed an orphan and kept an expected file
C30_Witness ==
    /\ Len(pruneLog) >= 1
    /\ prunePc = "idle"
    /\ Len(sent.prune) > QueueCap
    /\ ~pruneLog[Len(pruneLog)].dryRun
    /\ pruneLog[Len(pruneLog)].removed # {}
    /\ \E f \in DOMAIN outFiles : OutRel(f) \in pruneLog[Len(pruneLog)].expected

====
